---- MODULE Spec2Model ----
(***************************************************************************)
(* State-machine model of the Aligner-360 backend: course enrolment and    *)
(* capacity, the publication state machine of blogs, courses and ebooks,   *)
(* the live-session state machine and the blog visibility rule.            *)
(* Every request handler is one atomic action (requests run one at a time) *)
(* and writes its outcome to `last`.                                       *)
(***************************************************************************)
EXTENDS Integers, FiniteSets, Sequences, TLC

VARIABLES courses, enrollments, blogs, ebooks, sessions, now, last,
          mapUsers, calls, title, listing, media, uploads, accounts

vars == <<courses, enrollments, blogs, ebooks, sessions, now, last,
          mapUsers, calls, title, listing, media, uploads, accounts>>

\* the map directory, the calls in flight, the title under conversion, the
\* page of a listing, the media of the courses, the uploads in the
\* background and the user accounts: untouched by the handlers of the
\* content and enrolment services
aux == <<mapUsers, calls, title, listing, media, uploads, accounts>>

(* ------------------------------ bounds --------------------------------- *)

\* every handler call happens at a later clock value; no call after MaxTime
MaxTime == 5

\* listings: at most MaxRows rows match, pages 1..MaxPage, limits 1..MaxLimit
MaxRows == 7

MaxPage == 3

MaxLimit == 3

\* largest maxEnrollments a course is created with
MaxCap == 2

\* longest title handed to generateSlug
MaxTitleLen == 3

(* ----------------------------- value sets ------------------------------ *)

\* a nullable timestamp column holding null
NULL == 0

\* course.maxEnrollments unset (null): `if (course.maxEnrollments)` is falsy
NoLimit == 0

Users == {"A", "B", "C"}

Roles == {"admin", "user"}

CourseIds == {"c1", "c2"}

BlogIds == {"b1", "b2", "b3"}

EbookIds == {"e1", "e2"}

SessionIds == {"s1", "s2"}

\* the one course, blog and ebook that the enrolment and publication
\* specifications follow
FirstCourse == {"c1"}

FirstBlog == {"b1"}

FirstEbook == {"e1"}

CourseStatus == {"DRAFT", "PUBLISHED", "ARCHIVED", "UNDER_REVIEW"}

BlogStatus == {"DRAFT", "PUBLISHED", "ARCHIVED"}

EbookStatus == {"DRAFT", "PUBLISHED", "ARCHIVED", "UNDER_REVIEW"}

SessionStatus == {"SCHEDULED", "LIVE", "COMPLETED", "CANCELLED", "POSTPONED"}

EnrollmentStatus == {"ACTIVE", "COMPLETED", "CANCELLED", "REFUNDED"}

\* progress values a PATCH body can carry: the handler reads @Body('progress')
\* directly, so values outside [0,100] reach the service too
ProgressValues == {-1, 40, 100, 150}

\* the publishedAt / publishedDate values a caller supplies (valid date
\* strings, `new Date(s)`), distinct from every clock value
SuppliedDates == {50}

\* scheduledAt values of a request, as clock values: one never in the future,
\* one in the future of every call
ScheduledAts == {1, 100}

\* an optional DTO field that the request does not carry
ABSENT == "absent"

\* a title or slug the DTO does not carry (or carries empty): falsy in
\* `slug || ...` and `if (title)`; a title is a sequence of characters
NoSlug == ""

NoTitle == << >>

\* no id: the excludeId of a create call
NoId == "-"

\* a title whose slug is "ab" in every service
PlainTitle == <<"A", "b", "!">>

MapUserIds == {"m1", "m2"}

CallIds == {"k1", "k2"}

\* UserRole of each user: fixed at signup (admin-email allowlist)
Role(u) == IF u = "A" THEN "admin" ELSE "user"

(* --------------------- column defaults of the store -------------------- *)

DefaultEnrollmentStatus == "ACTIVE"

DefaultContentStatus == "DRAFT"

DefaultSessionStatus == "SCHEDULED"

(* ------------------------------- rows ---------------------------------- *)

NoCourse ==
  [exists |-> FALSE, status |-> DefaultContentStatus, publishedAt |-> NULL,
   maxEnrollments |-> NoLimit, enrollmentCount |-> 0, slug |-> NoSlug,
   createdById |-> "A", viewCount |-> 0]

NoEnrollment ==
  [exists |-> FALSE, status |-> DefaultEnrollmentStatus, progress |-> 0,
   completedAt |-> NULL]

NoBlog ==
  [exists |-> FALSE, status |-> DefaultContentStatus, publishedAt |-> NULL,
   authorId |-> "A", viewCount |-> 0, slug |-> NoSlug,
   isForDentist |-> FALSE]

NoEbook ==
  [exists |-> FALSE, status |-> DefaultContentStatus, publishedDate |-> NULL,
   slug |-> NoSlug, uploadedById |-> "A", viewCount |-> 0]

NoSession ==
  [exists |-> FALSE, status |-> DefaultSessionStatus, createdById |-> "A",
   slug |-> NoSlug, isActive |-> TRUE]

\* a row of the map directory; latitude and longitude are numbers
NoMapUser ==
  [exists |-> FALSE, phone |-> "", location |-> "", latitude |-> 0,
   longitude |-> 0]

\* a handler call in flight between two awaits: its position, its arguments
\* and its local variables (the course it read, the slug, uniqueSlug and
\* counter of ensureUniqueSlug)
NoCall ==
  [pc |-> "idle", op |-> "none", user |-> "-", id |-> "-", course |-> NoCourse,
   slug |-> NoSlug, uniqueSlug |-> NoSlug, counter |-> 0]

\* no listing was asked for: `matches` is the number of rows that match the
\* filter of the query, the other fields are the answer
NoListing ==
  [op |-> "none", matches |-> 0, page |-> 0, limit |-> 0, skip |-> 0,
   data |-> << >>, total |-> 0, totalPages |-> 0, hasNextPage |-> FALSE,
   hasPrevPage |-> FALSE]

\* the thumbnailImage and videoFile columns of a course ("" = not set), and
\* the uploadedFiles object of a background upload
NoMedia == [thumbnailImage |-> "", videoFile |-> ""]

\* a background upload (processFileUploadsAsync) that is not running; files
\* tells, per field, whether a file was attached and whether it is one the
\* validation admits
NoUpload ==
  [pc |-> "idle", id |-> "-",
   files |-> [thumbnailImage |-> "none", videoFile |-> "none"],
   uploadedFiles |-> NoMedia]

\* the user table before any reset was asked for, the number of reset
\* tokens generated so far, and the tokens a resetPassword call has accepted
NoAccounts ==
  [users |-> [u \in Users |->
                [password |-> "hash(pw0)", resetPasswordToken |-> "",
                 resetPasswordExpires |-> NULL]],
   issued |-> 0,
   spent |-> {}]

\* the outcome of the last handler call
Result(op, res, msg, course, owner, user) ==
  [op |-> op, result |-> res, msg |-> msg, id |-> course, owner |-> owner,
   user |-> user, arg |-> 0, arg2 |-> 0, text |-> "", flag |-> FALSE]

NoResult == Result("none", "ok", "", "-", "-", "-")

(* ------------------------------- slugs --------------------------------- *)

\* the characters of a title: an upper-case letter, a lower-case letter, a
\* digit, a space, a hyphen and a character outside [A-Za-z0-9 -]
Chars == {"A", "b", "1", " ", "-", "!"}

\* the characters of the model in the class [a-z0-9]
AlnumChars == {"a", "b", "1"}

\* String.prototype.toLowerCase, one character at a time
toLowerCase(t) ==
  [i \in 1..Len(t) |-> IF t[i] = "A" THEN "a" ELSE t[i]]

\* every character a lower-cased title can hold
LowerChars == {toLowerCase(<<ch>>)[1] : ch \in Chars}

RECURSIVE DropLeading(_, _)
\* t without its longest prefix of characters of class
DropLeading(t, class) ==
  IF t = << >> \/ Head(t) \notin class THEN t
  ELSE DropLeading(Tail(t), class)

RECURSIVE DropTrailing(_, _)
\* t without its longest suffix of characters of class
DropTrailing(t, class) ==
  IF t = << >> \/ t[Len(t)] \notin class THEN t
  ELSE DropTrailing(SubSeq(t, 1, Len(t) - 1), class)

RECURSIVE ReplaceRuns(_, _, _)
\* t.replace(/[class]+/g, with): every maximal run of characters of class
\* becomes the sequence with
ReplaceRuns(t, class, with) ==
  IF t = << >> THEN << >>
  ELSE IF Head(t) \in class
    THEN with \o ReplaceRuns(DropLeading(t, class), class, with)
  ELSE <<Head(t)>> \o ReplaceRuns(Tail(t), class, with)

\* t.replace(/^-+|-+$/g, '')
TrimHyphens_leadingOnly(t) ==
  DropLeading(t, {"-"})

TrimHyphens(t) ==
  DropTrailing(DropLeading(t, {"-"}), {"-"})

\* BlogService.generateSlug(title)
generateSlug_Blog(t) ==
  LET lower == toLowerCase(t)
      kept == SelectSeq(lower, LAMBDA ch : ch \in AlnumChars \cup {" ", "-"})
      hyphenated == ReplaceRuns(kept, {" "}, <<"-">>)
      collapsed == ReplaceRuns(hyphenated, {"-"}, <<"-">>)
  IN TrimHyphens(collapsed)

\* CourseService.generateSlug(title)
generateSlug_Course(t) ==
  TrimHyphens(ReplaceRuns(toLowerCase(t), LowerChars \ AlnumChars, <<"-">>))

\* EbookService.generateSlug(title)
generateSlug_Ebook(t) ==
  TrimHyphens(ReplaceRuns(toLowerCase(t), LowerChars \ AlnumChars, <<"-">>))

\* LiveSessionService.generateSlug(title)
generateSlug_LiveSession(t) ==
  TrimHyphens(ReplaceRuns(toLowerCase(t), LowerChars \ AlnumChars, <<"-">>))

RECURSIVE Join(_)
\* the string made of the characters of t
Join(t) ==
  IF t = << >> THEN "" ELSE Head(t) \o Join(Tail(t))

\* `slug || this.generateSlug(title)`
SlugOrGenerated(slug, generated) ==
  IF slug # NoSlug THEN slug ELSE Join(generated)

RECURSIVE Probe(_, _, _, _)
\* the loop of ensureUniqueSlug: taken is the set of slugs held by the rows
\* the lookup can find (all siblings but excludeId)
Probe_appendToPrevious(slug, uniqueSlug, counter, taken) ==
  IF uniqueSlug \notin taken THEN uniqueSlug
  ELSE Probe(slug, uniqueSlug \o "-" \o ToString(counter), counter + 1, taken)

Probe(slug, uniqueSlug, counter, taken) ==
  IF uniqueSlug \notin taken THEN uniqueSlug
  ELSE Probe(slug, slug \o "-" \o ToString(counter), counter + 1, taken)

\* ensureUniqueSlug(slug, excludeId) over the rows `rows` of one entity
\* type: the lookup finds a row that holds uniqueSlug and is not excludeId
\* (BlogService looks the slug up and compares the id of the row found)
ensureUniqueSlug_ignoreExclude(rows, slug, excludeId) ==
  Probe(slug, slug, 1, {rows[i].slug : i \in {j \in DOMAIN rows : rows[j].exists}})

ensureUniqueSlug(rows, slug, excludeId) ==
  Probe(slug, slug, 1,
        {rows[i].slug : i \in {j \in DOMAIN rows :
                                 rows[j].exists /\ j # excludeId}})

\* the unique index on slug: the store refuses a write that would give row
\* id a slug another row of the type holds
SlugTaken_never(rows, id, slug) ==
  FALSE

SlugTaken(rows, id, slug) ==
  \E j \in DOMAIN rows : j # id /\ rows[j].exists /\ rows[j].slug = slug

(* ------------------------- enrolment / capacity ------------------------ *)

\* prisma.courseEnrollment.count({ where: { courseId, status: 'ACTIVE' } })
ActiveCount(c) ==
  Cardinality({u \in Users : enrollments[<<u, c>>].exists
                             /\ enrollments[<<u, c>>].status = "ACTIVE"})

\* `if (existingEnrollment)`: a row for (userId, courseId), whatever its status
existingEnrollment_activeOnly(u, c) ==
  enrollments[<<u, c>>].exists /\ enrollments[<<u, c>>].status # "CANCELLED"

existingEnrollment(u, c) ==
  enrollments[<<u, c>>].exists

\* `if (course.maxEnrollments) { ... currentEnrollments >= course.maxEnrollments }`
LimitReached_never(course, currentEnrollments) ==
  FALSE

LimitReached_gt(course, currentEnrollments) ==
  /\ course.maxEnrollments # NoLimit
  /\ currentEnrollments > course.maxEnrollments

LimitReached(course, currentEnrollments) ==
  /\ course.maxEnrollments # NoLimit
  /\ currentEnrollments >= course.maxEnrollments

\* enrollInCourse with the count of ACTIVE rows taken before the lookup of
\* the caller's row
enrollInCourse_countFirst(c, u) ==
  LET course == courses[c]
      R(res, msg) == Result("enrollInCourse", res, msg, c, u, u)
  IN
  /\ now < MaxTime
  /\ now' = now + 1
  /\ UNCHANGED aux
  /\ UNCHANGED <<blogs, ebooks, sessions>>
  /\ IF ~course.exists
       THEN /\ last' = R("NotFound", "Course not found")
            /\ UNCHANGED <<courses, enrollments>>
     ELSE IF course.status # "PUBLISHED"
       THEN /\ last' = R("BadRequest", "Course is not available for enrollment")
            /\ UNCHANGED <<courses, enrollments>>
     ELSE IF LimitReached(course, ActiveCount(c))
       THEN /\ last' = R("BadRequest", "Course enrollment limit reached")
            /\ UNCHANGED <<courses, enrollments>>
     ELSE IF existingEnrollment(u, c)
       THEN /\ last' = R("Conflict", "You are already enrolled in this course")
            /\ UNCHANGED <<courses, enrollments>>
     ELSE /\ enrollments' =
               [enrollments EXCEPT ![<<u, c>>] =
                  [exists |-> TRUE, status |-> DefaultEnrollmentStatus,
                   progress |-> 0, completedAt |-> NULL]]
          /\ courses' =
               [courses EXCEPT ![c].enrollmentCount = @ + 1]
          /\ last' = R("ok", "")

\* CourseService.enrollInCourse(courseId, userId)
enrollInCourse(c, u) ==
  LET course == courses[c]
      R(res, msg) == Result("enrollInCourse", res, msg, c, u, u)
  IN
  /\ now < MaxTime
  /\ now' = now + 1
  /\ UNCHANGED aux
  /\ UNCHANGED <<blogs, ebooks, sessions>>
  /\ IF ~course.exists
       THEN /\ last' = R("NotFound", "Course not found")
            /\ UNCHANGED <<courses, enrollments>>
     ELSE IF course.status # "PUBLISHED"
       THEN /\ last' = R("BadRequest", "Course is not available for enrollment")
            /\ UNCHANGED <<courses, enrollments>>
     ELSE IF existingEnrollment(u, c)
       THEN /\ last' = R("Conflict", "You are already enrolled in this course")
            /\ UNCHANGED <<courses, enrollments>>
     ELSE IF LimitReached(course, ActiveCount(c))
       THEN /\ last' = R("BadRequest", "Course enrollment limit reached")
            /\ UNCHANGED <<courses, enrollments>>
     ELSE /\ enrollments' =
               [enrollments EXCEPT ![<<u, c>>] =
                  [exists |-> TRUE, status |-> DefaultEnrollmentStatus,
                   progress |-> 0, completedAt |-> NULL]]
          /\ courses' =
               [courses EXCEPT ![c].enrollmentCount = @ + 1]
          /\ last' = R("ok", "")

\* `if (enrollment.userId !== userId)` of updateEnrollmentProgress and
\* cancelEnrollment
NotOwner_adminBypass(enrollmentUserId, userId) ==
  enrollmentUserId # userId /\ Role(userId) # "admin"

NotOwner(enrollmentUserId, userId) ==
  enrollmentUserId # userId

\* `if (progress >= 100 && !enrollment.completedAt)`
MarkCompleted_restamp(enrollment, progress) ==
  progress >= 100

MarkCompleted(enrollment, progress) ==
  progress >= 100 /\ enrollment.completedAt = NULL

\* CourseService.updateEnrollmentProgress(enrollmentId, userId, progress);
\* the enrolment id is the row of owner o in course c
updateEnrollmentProgress(o, c, u, progress) ==
  LET enrollment == enrollments[<<o, c>>]
      R(res, msg) == Result("updateEnrollmentProgress", res, msg, c, o, u)
  IN
  /\ now < MaxTime
  /\ now' = now + 1
  /\ UNCHANGED aux
  /\ UNCHANGED <<courses, blogs, ebooks, sessions>>
  /\ IF ~enrollment.exists
       THEN /\ last' = R("NotFound", "Enrollment not found")
            /\ UNCHANGED enrollments
     ELSE IF NotOwner(o, u)
       THEN /\ last' = R("Forbidden", "You can only update your own enrollment")
            /\ UNCHANGED enrollments
     ELSE /\ enrollments' =
               [enrollments EXCEPT ![<<o, c>>] =
                  IF MarkCompleted(enrollment, progress)
                    THEN [@ EXCEPT !.progress = progress,
                                   !.status = "COMPLETED",
                                   !.completedAt = now]
                    ELSE [@ EXCEPT !.progress = progress]]
          /\ last' = R("ok", "")

\* the row cancelEnrollment writes: `data: { status: 'CANCELLED' }`
CancelledRow_deleted(enrollment) ==
  NoEnrollment

CancelledRow(enrollment) ==
  [enrollment EXCEPT !.status = "CANCELLED"]

\* CourseService.cancelEnrollment(enrollmentId, userId)
cancelEnrollment(o, c, u) ==
  LET enrollment == enrollments[<<o, c>>]
      R(res, msg) == Result("cancelEnrollment", res, msg, c, o, u)
  IN
  /\ now < MaxTime
  /\ now' = now + 1
  /\ UNCHANGED aux
  /\ UNCHANGED <<blogs, ebooks, sessions>>
  /\ IF ~enrollment.exists
       THEN /\ last' = R("NotFound", "Enrollment not found")
            /\ UNCHANGED <<courses, enrollments>>
     ELSE IF NotOwner(o, u)
       THEN /\ last' = R("Forbidden", "You can only cancel your own enrollment")
            /\ UNCHANGED <<courses, enrollments>>
     ELSE /\ enrollments' =
               [enrollments EXCEPT ![<<o, c>>] = CancelledRow(enrollment)]
          /\ courses' = [courses EXCEPT ![c].enrollmentCount = @ - 1]
          /\ last' = R("ok", "")

(* ------------------------- enrolment specification --------------------- *)

\* a course as createCourse leaves it (never created, or created with any
\* status and maxEnrollments the DTO admits), before the first enrolment
CreatedCourses ==
  {NoCourse} \cup
  {[exists |-> TRUE, status |-> s, publishedAt |-> NULL,
    maxEnrollments |-> m, enrollmentCount |-> 0,
    slug |-> Join(generateSlug_Course(PlainTitle)), createdById |-> "A",
    viewCount |-> 0] :
     s \in {"DRAFT", "PUBLISHED"}, m \in {NoLimit} \cup (1..MaxCap)}

InitEnroll ==
  /\ courses \in [CourseIds -> CreatedCourses]
  /\ \A c \in CourseIds \ FirstCourse : courses[c] = NoCourse
  /\ mapUsers = [m \in MapUserIds |-> NoMapUser]
  /\ calls = [k \in CallIds |-> NoCall]
  /\ listing = NoListing
  /\ media = [c \in CourseIds |-> NoMedia]
  /\ uploads = [k \in CallIds |-> NoUpload]
  /\ accounts = NoAccounts
  /\ title = NoTitle
  /\ enrollments = [e \in Users \X CourseIds |-> NoEnrollment]
  /\ blogs = [b \in BlogIds |-> NoBlog]
  /\ ebooks = [e \in EbookIds |-> NoEbook]
  /\ sessions = [s \in SessionIds |-> NoSession]
  /\ now = 1
  /\ last = NoResult

NextEnroll ==
  \/ \E c \in FirstCourse, u \in Users : enrollInCourse(c, u)
  \/ \E o \in Users, c \in FirstCourse, u \in Users, p \in ProgressValues :
       updateEnrollmentProgress(o, c, u, p)
  \/ \E o \in Users, c \in FirstCourse, u \in Users : cancelEnrollment(o, c, u)

SpecEnroll == InitEnroll /\ [][NextEnroll]_vars

(* ------------------ enrolment: calls interleaved at awaits ------------- *)

\* `await prisma.course.findUnique(...)`: call k starts for user u and
\* course c and keeps the course row it read
EnrollFindCourse(k, c, u) ==
  LET course == courses[c]
      R(res, msg) == Result("enrollInCourse", res, msg, c, u, u)
  IN
  /\ calls[k].pc = "idle"
  /\ UNCHANGED <<courses, enrollments, blogs, ebooks, sessions, now,
                 mapUsers, title>>
  /\ UNCHANGED <<listing, media, uploads, accounts>>
  /\ IF ~course.exists
       THEN /\ last' = R("NotFound", "Course not found")
            /\ UNCHANGED calls
     ELSE IF course.status # "PUBLISHED"
       THEN /\ last' = R("BadRequest", "Course is not available for enrollment")
            /\ UNCHANGED calls
     ELSE /\ calls' = [calls EXCEPT ![k] =
                         [NoCall EXCEPT !.pc = "findEnrollment",
                                        !.op = "enrollInCourse",
                                        !.user = u, !.id = c,
                                        !.course = course]]
          /\ UNCHANGED last

\* `await prisma.courseEnrollment.findUnique({ where: { userId_courseId } })`
EnrollFindExisting(k) ==
  LET u == calls[k].user
      c == calls[k].id
      R(res, msg) == Result("enrollInCourse", res, msg, c, u, u)
  IN
  /\ calls[k].pc = "findEnrollment"
  /\ UNCHANGED <<courses, enrollments, blogs, ebooks, sessions, now,
                 mapUsers, title>>
  /\ UNCHANGED <<listing, media, uploads, accounts>>
  /\ IF existingEnrollment(u, c)
       THEN /\ last' = R("Conflict", "You are already enrolled in this course")
            /\ calls' = [calls EXCEPT ![k] = NoCall]
     ELSE /\ calls' = [calls EXCEPT ![k].pc =
                         IF calls[k].course.maxEnrollments # NoLimit
                           THEN "count" ELSE "create"]
          /\ UNCHANGED last

\* `await prisma.courseEnrollment.count(...)` and the comparison with the
\* maxEnrollments of the course row read at the start
EnrollCount(k) ==
  LET u == calls[k].user
      c == calls[k].id
      R(res, msg) == Result("enrollInCourse", res, msg, c, u, u)
  IN
  /\ calls[k].pc = "count"
  /\ UNCHANGED <<courses, enrollments, blogs, ebooks, sessions, now,
                 mapUsers, title>>
  /\ UNCHANGED <<listing, media, uploads, accounts>>
  /\ IF LimitReached(calls[k].course, ActiveCount(c))
       THEN /\ last' = R("BadRequest", "Course enrollment limit reached")
            /\ calls' = [calls EXCEPT ![k] = NoCall]
     ELSE /\ calls' = [calls EXCEPT ![k].pc = "create"]
          /\ UNCHANGED last

\* what makes the store refuse the insert: only the compound unique key
\* (userId, courseId)
InsertRefused_recount(u, c) ==
  existingEnrollment(u, c) \/ LimitReached(courses[c], ActiveCount(c))

InsertRefused(u, c) ==
  existingEnrollment(u, c)

\* `await prisma.courseEnrollment.create(...)`; a refused insert is an
\* exception no handler catches
EnrollCreate(k) ==
  LET u == calls[k].user
      c == calls[k].id
      R(res, msg) == Result("enrollInCourse", res, msg, c, u, u)
  IN
  /\ calls[k].pc = "create"
  /\ UNCHANGED <<courses, blogs, ebooks, sessions, now, mapUsers, title>>
  /\ UNCHANGED <<listing, media, uploads, accounts>>
  /\ IF InsertRefused(u, c)
       THEN /\ last' = R("InternalServerError", "Unique constraint failed")
            /\ calls' = [calls EXCEPT ![k] = NoCall]
            /\ UNCHANGED enrollments
     ELSE /\ enrollments' =
               [enrollments EXCEPT ![<<u, c>>] =
                  [exists |-> TRUE, status |-> DefaultEnrollmentStatus,
                   progress |-> 0, completedAt |-> NULL]]
          /\ calls' = [calls EXCEPT ![k].pc = "increment"]
          /\ UNCHANGED last

\* `await prisma.course.update({ data: { enrollmentCount: { increment: 1 } } })`
\* and the return
EnrollIncrement(k) ==
  LET u == calls[k].user
      c == calls[k].id
  IN
  /\ calls[k].pc = "increment"
  /\ UNCHANGED <<enrollments, blogs, ebooks, sessions, now, mapUsers, title>>
  /\ UNCHANGED <<listing, media, uploads, accounts>>
  /\ courses' = [courses EXCEPT ![c].enrollmentCount = @ + 1]
  /\ calls' = [calls EXCEPT ![k] = NoCall]
  /\ last' = Result("enrollInCourse", "ok", "", c, u, u)

NextEnrollRace ==
  \/ \E k \in CallIds, c \in FirstCourse, u \in Users : EnrollFindCourse(k, c, u)
  \/ \E k \in CallIds : EnrollFindExisting(k)
  \/ \E k \in CallIds : EnrollCount(k)
  \/ \E k \in CallIds : EnrollCreate(k)
  \/ \E k \in CallIds : EnrollIncrement(k)

SpecEnrollRace == InitEnroll /\ [][NextEnrollRace]_vars

(* --------------------- publication state machine ----------------------- *)

\* `status` of a created row: the DTO's value, or the column default
CreatedStatus(status) ==
  IF status = ABSENT THEN DefaultContentStatus ELSE status

\* `dto.publishedAt ? new Date(dto.publishedAt) : new Date()`;
\* supplied = NULL when the DTO carries no (or an empty) publishedAt
PublishedAtOf_now(supplied) ==
  now

PublishedAtOf(supplied) ==
  IF supplied # NULL THEN supplied ELSE now

\* the guard of publishBlog / publishCourse / publishEbook
AlreadyPublished_never(status) ==
  FALSE

AlreadyPublished(status) ==
  status = "PUBLISHED"

\* the guard of unpublishBlog / unpublishCourse / unpublishEbook
NotPublished_draftOnly(status) ==
  status = "DRAFT"

NotPublished(status) ==
  status # "PUBLISHED"

\* `if (userRole !== UserRole.ADMIN && <owner> !== userId)` of the update
\* and delete methods
NotPermitted_ownerOnly(userRole, ownerId, userId) ==
  ownerId # userId

NotPermitted(userRole, ownerId, userId) ==
  userRole # "admin" /\ ownerId # userId

\* BlogService.createBlog(createBlogDto, authorId): b is the fresh id, t the
\* title and slug the explicit slug of the DTO; last.text is the candidate
\* handed to ensureUniqueSlug
createBlog(b, t, slug, status, isForDentist, authorId) ==
  LET candidate == SlugOrGenerated(slug, generateSlug_Blog(t))
      blogSlug == ensureUniqueSlug(blogs, candidate, NoId)
  IN
  /\ now < MaxTime
  /\ ~blogs[b].exists
  /\ now' = now + 1
  /\ UNCHANGED aux
  /\ blogs' = [blogs EXCEPT ![b] =
                 [exists |-> TRUE, status |-> CreatedStatus(status),
                  publishedAt |-> NULL, authorId |-> authorId,
                  viewCount |-> 0, slug |-> blogSlug,
                  isForDentist |-> isForDentist]]
  /\ last' = [Result("createBlog", "ok", "", b, authorId, authorId)
                EXCEPT !.text = candidate]
  /\ UNCHANGED <<courses, enrollments, ebooks, sessions>>

\* BlogService.updateBlog(id, updateBlogDto, userRole, userId)
updateBlog(b, t, slug, status, userRole, userId) ==
  LET candidate == SlugOrGenerated(slug, generateSlug_Blog(t))
      R(res, msg) ==
        [Result("updateBlog", res, msg, b, blogs[b].authorId, userId)
           EXCEPT !.text = IF slug # NoSlug \/ t # NoTitle
                             THEN candidate ELSE NoSlug]
  IN
  /\ now < MaxTime
  /\ now' = now + 1
  /\ UNCHANGED aux
  /\ UNCHANGED <<courses, enrollments, ebooks, sessions>>
  /\ IF ~blogs[b].exists
       THEN /\ last' = R("NotFound", "Blog not found")
            /\ UNCHANGED blogs
     ELSE IF NotPermitted(userRole, blogs[b].authorId, userId)
       THEN /\ last' = R("Forbidden",
                 "You can only update your own blogs or you must be an admin")
            /\ UNCHANGED blogs
     ELSE /\ blogs' = [blogs EXCEPT
                         ![b].status = IF status = ABSENT THEN @ ELSE status,
                         ![b].slug =
                            IF slug # NoSlug \/ t # NoTitle
                              THEN ensureUniqueSlug(blogs, candidate, b)
                              ELSE @]
          /\ last' = R("ok", "")

\* BlogService.deleteBlog(id, userRole, userId)
deleteBlog(b, userRole, userId) ==
  LET R(res, msg) == Result("deleteBlog", res, msg, b, blogs[b].authorId, userId)
  IN
  /\ now < MaxTime
  /\ now' = now + 1
  /\ UNCHANGED aux
  /\ UNCHANGED <<courses, enrollments, ebooks, sessions>>
  /\ IF ~blogs[b].exists
       THEN /\ last' = R("NotFound", "Blog not found")
            /\ UNCHANGED blogs
     ELSE IF NotPermitted(userRole, blogs[b].authorId, userId)
       THEN /\ last' = R("Forbidden",
                 "You can only delete your own blogs or you must be an admin")
            /\ UNCHANGED blogs
     ELSE /\ blogs' = [blogs EXCEPT ![b] = NoBlog]
          /\ last' = R("ok", "")

\* BlogService.publishBlog(id, publishBlogDto)
publishBlog(b, supplied) ==
  LET R(res, msg) ==
        [Result("publishBlog", res, msg, b, "-", "-") EXCEPT !.arg = supplied]
  IN
  /\ now < MaxTime
  /\ now' = now + 1
  /\ UNCHANGED aux
  /\ UNCHANGED <<courses, enrollments, ebooks, sessions>>
  /\ IF ~blogs[b].exists
       THEN /\ last' = R("NotFound", "Blog not found")
            /\ UNCHANGED blogs
     ELSE IF AlreadyPublished(blogs[b].status)
       THEN /\ last' = R("BadRequest", "Blog is already published")
            /\ UNCHANGED blogs
     ELSE /\ blogs' = [blogs EXCEPT ![b].status = "PUBLISHED",
                                    ![b].publishedAt = PublishedAtOf(supplied)]
          /\ last' = R("ok", "")

\* BlogService.unpublishBlog(id)
unpublishBlog(b) ==
  LET R(res, msg) == Result("unpublishBlog", res, msg, b, "-", "-")
  IN
  /\ now < MaxTime
  /\ now' = now + 1
  /\ UNCHANGED aux
  /\ UNCHANGED <<courses, enrollments, ebooks, sessions>>
  /\ IF ~blogs[b].exists
       THEN /\ last' = R("NotFound", "Blog not found")
            /\ UNCHANGED blogs
     ELSE IF NotPublished(blogs[b].status)
       THEN /\ last' = R("BadRequest", "Blog is not published")
            /\ UNCHANGED blogs
     ELSE /\ blogs' = [blogs EXCEPT ![b].status = "DRAFT",
                                    ![b].publishedAt = NULL]
          /\ last' = R("ok", "")

\* BlogService.getBlogById(id, role): no status or ownership test; the view
\* counter moves for a PUBLISHED blog read with a non-admin role
getBlogById(b, role, requester) ==
  LET R(res, msg) ==
        Result("getBlogById", res, msg, b, blogs[b].authorId, requester)
  IN
  /\ now < MaxTime
  /\ now' = now + 1
  /\ UNCHANGED aux
  /\ UNCHANGED <<courses, enrollments, ebooks, sessions>>
  /\ IF ~blogs[b].exists
       THEN /\ last' = R("NotFound", "Blog not found")
            /\ UNCHANGED blogs
     ELSE /\ blogs' = [blogs EXCEPT ![b].viewCount =
                         IF blogs[b].status = "PUBLISHED" /\ role # "admin"
                           THEN @ + 1 ELSE @]
          /\ last' = R("ok", "")

\* CourseService.createCourse(createCourseDto, createdById): c is the fresh
\* id; maxEnrollments = NoLimit when the DTO carries none
createCourse(c, t, slug, status, maxEnrollments, createdById) ==
  LET candidate == SlugOrGenerated(slug, generateSlug_Course(t))
      courseSlug == ensureUniqueSlug(courses, candidate, NoId)
  IN
  /\ now < MaxTime
  /\ ~courses[c].exists
  /\ now' = now + 1
  /\ UNCHANGED aux
  /\ courses' = [courses EXCEPT ![c] =
                   [exists |-> TRUE, status |-> CreatedStatus(status),
                    publishedAt |-> NULL, maxEnrollments |-> maxEnrollments,
                    enrollmentCount |-> 0, slug |-> courseSlug,
                    createdById |-> createdById, viewCount |-> 0]]
  /\ last' = [Result("createCourse", "ok", "", c, createdById, createdById)
                EXCEPT !.text = candidate]
  /\ UNCHANGED <<enrollments, blogs, ebooks, sessions>>

\* CourseController.updateCourse and CourseService.updateCourse(id,
\* fileData): the controller passes the whole UpdateCourseDto, so a status
\* and a slug in the request are written as they are, without
\* ensureUniqueSlug; a slug another course holds is refused by the unique
\* index and the controller's catch answers 500
updateCourse(c, slug, status) ==
  LET R(res, msg) ==
        [Result("updateCourse", res, msg, c, "-", "-") EXCEPT !.text = slug]
  IN
  /\ now < MaxTime
  /\ now' = now + 1
  /\ UNCHANGED aux
  /\ UNCHANGED <<enrollments, blogs, ebooks, sessions>>
  /\ IF ~courses[c].exists
       THEN /\ last' = R("NotFound", "Course not found")
            /\ UNCHANGED courses
     ELSE IF slug # NoSlug /\ SlugTaken(courses, c, slug)
       THEN /\ last' = R("InternalServerError", "Unique constraint failed")
            /\ UNCHANGED courses
     ELSE /\ courses' = [courses EXCEPT
                           ![c].status = IF status = ABSENT THEN @ ELSE status,
                           ![c].slug = IF slug = NoSlug THEN @ ELSE slug]
          /\ last' = R("ok", "")

\* CourseService.deleteCourse(id, userRole, userId)
deleteCourse(c, userRole, userId) ==
  LET R(res, msg) ==
        Result("deleteCourse", res, msg, c, courses[c].createdById, userId)
  IN
  /\ now < MaxTime
  /\ now' = now + 1
  /\ UNCHANGED aux
  /\ UNCHANGED <<enrollments, blogs, ebooks, sessions>>
  /\ IF ~courses[c].exists
       THEN /\ last' = R("NotFound", "Course not found")
            /\ UNCHANGED courses
     ELSE IF NotPermitted(userRole, courses[c].createdById, userId)
       THEN /\ last' = R("Forbidden",
                 "You can only delete your own courses or you must be an admin")
            /\ UNCHANGED courses
     ELSE /\ courses' = [courses EXCEPT ![c] = NoCourse]
          /\ last' = R("ok", "")

\* CourseService.publishCourse(id, publishCourseDto)
publishCourse(c, supplied) ==
  LET R(res, msg) ==
        [Result("publishCourse", res, msg, c, "-", "-") EXCEPT !.arg = supplied]
  IN
  /\ now < MaxTime
  /\ now' = now + 1
  /\ UNCHANGED aux
  /\ UNCHANGED <<enrollments, blogs, ebooks, sessions>>
  /\ IF ~courses[c].exists
       THEN /\ last' = R("NotFound", "Course not found")
            /\ UNCHANGED courses
     ELSE IF AlreadyPublished(courses[c].status)
       THEN /\ last' = R("BadRequest", "Course is already published")
            /\ UNCHANGED courses
     ELSE /\ courses' = [courses EXCEPT ![c].status = "PUBLISHED",
                                        ![c].publishedAt = PublishedAtOf(supplied)]
          /\ last' = R("ok", "")

\* CourseService.unpublishCourse(id)
unpublishCourse(c) ==
  LET R(res, msg) == Result("unpublishCourse", res, msg, c, "-", "-")
  IN
  /\ now < MaxTime
  /\ now' = now + 1
  /\ UNCHANGED aux
  /\ UNCHANGED <<enrollments, blogs, ebooks, sessions>>
  /\ IF ~courses[c].exists
       THEN /\ last' = R("NotFound", "Course not found")
            /\ UNCHANGED courses
     ELSE IF NotPublished(courses[c].status)
       THEN /\ last' = R("BadRequest", "Course is not published")
            /\ UNCHANGED courses
     ELSE /\ courses' = [courses EXCEPT ![c].status = "DRAFT",
                                        ![c].publishedAt = NULL]
          /\ last' = R("ok", "")

\* EbookService.createEbook(createEbookDto, uploadedById): e is the fresh id;
\* publishedDate is written only when the DTO carries one
createEbook(e, t, slug, status, publishedDate, uploadedById) ==
  LET candidate == SlugOrGenerated(slug, generateSlug_Ebook(t))
      ebookSlug == ensureUniqueSlug(ebooks, candidate, NoId)
  IN
  /\ now < MaxTime
  /\ ~ebooks[e].exists
  /\ now' = now + 1
  /\ UNCHANGED aux
  /\ ebooks' = [ebooks EXCEPT ![e] =
                  [exists |-> TRUE, status |-> CreatedStatus(status),
                   publishedDate |-> publishedDate, slug |-> ebookSlug,
                   uploadedById |-> uploadedById, viewCount |-> 0]]
  /\ last' = [Result("createEbook", "ok", "", e, uploadedById, uploadedById)
                EXCEPT !.text = candidate]
  /\ UNCHANGED <<courses, enrollments, blogs, sessions>>

\* EbookService.updateEbook(id, updateEbookDto, userRole, userId): title and
\* slug are taken out of the DTO and the slug is never written; a status in
\* the DTO is part of `...rest`; publishedDate = NULL when the DTO has none
updateEbook(e, status, publishedDate, userRole, userId) ==
  LET R(res, msg) ==
        Result("updateEbook", res, msg, e, ebooks[e].uploadedById, userId)
  IN
  /\ now < MaxTime
  /\ now' = now + 1
  /\ UNCHANGED aux
  /\ UNCHANGED <<courses, enrollments, blogs, sessions>>
  /\ IF ~ebooks[e].exists
       THEN /\ last' = R("NotFound", "Ebook not found")
            /\ UNCHANGED ebooks
     ELSE IF NotPermitted(userRole, ebooks[e].uploadedById, userId)
       THEN /\ last' = R("Forbidden",
                 "You can only update your own ebooks or you must be an admin")
            /\ UNCHANGED ebooks
     ELSE /\ ebooks' = [ebooks EXCEPT
                          ![e].status = IF status = ABSENT THEN @ ELSE status,
                          ![e].publishedDate =
                             IF publishedDate # NULL THEN publishedDate ELSE @]
          /\ last' = R("ok", "")

\* EbookService.deleteEbook(id, userRole, userId)
deleteEbook(e, userRole, userId) ==
  LET R(res, msg) ==
        Result("deleteEbook", res, msg, e, ebooks[e].uploadedById, userId)
  IN
  /\ now < MaxTime
  /\ now' = now + 1
  /\ UNCHANGED aux
  /\ UNCHANGED <<courses, enrollments, blogs, sessions>>
  /\ IF ~ebooks[e].exists
       THEN /\ last' = R("NotFound", "Ebook not found")
            /\ UNCHANGED ebooks
     ELSE IF NotPermitted(userRole, ebooks[e].uploadedById, userId)
       THEN /\ last' = R("Forbidden",
                 "You can only delete your own ebooks or you must be an admin")
            /\ UNCHANGED ebooks
     ELSE /\ ebooks' = [ebooks EXCEPT ![e] = NoEbook]
          /\ last' = R("ok", "")

\* EbookService.publishEbook(id, publishEbookDto): publishedDate is written
\* only when the DTO carries one
publishEbook(e, supplied) ==
  LET R(res, msg) ==
        [Result("publishEbook", res, msg, e, "-", "-") EXCEPT !.arg = supplied]
  IN
  /\ now < MaxTime
  /\ now' = now + 1
  /\ UNCHANGED aux
  /\ UNCHANGED <<courses, enrollments, blogs, sessions>>
  /\ IF ~ebooks[e].exists
       THEN /\ last' = R("NotFound", "Ebook not found")
            /\ UNCHANGED ebooks
     ELSE IF AlreadyPublished(ebooks[e].status)
       THEN /\ last' = R("BadRequest", "Ebook is already published")
            /\ UNCHANGED ebooks
     ELSE /\ ebooks' = [ebooks EXCEPT ![e].status = "PUBLISHED",
                                      ![e].publishedDate =
                                         IF supplied # NULL THEN supplied ELSE @]
          /\ last' = R("ok", "")

\* EbookService.unpublishEbook(id): writes the status only
unpublishEbook(e) ==
  LET R(res, msg) == Result("unpublishEbook", res, msg, e, "-", "-")
  IN
  /\ now < MaxTime
  /\ now' = now + 1
  /\ UNCHANGED aux
  /\ UNCHANGED <<courses, enrollments, blogs, sessions>>
  /\ IF ~ebooks[e].exists
       THEN /\ last' = R("NotFound", "Ebook not found")
            /\ UNCHANGED ebooks
     ELSE IF NotPublished(ebooks[e].status)
       THEN /\ last' = R("BadRequest", "Ebook is not published")
            /\ UNCHANGED ebooks
     ELSE /\ ebooks' = [ebooks EXCEPT ![e].status = "DRAFT"]
          /\ last' = R("ok", "")

(* ---------------------- publication specification ---------------------- *)

\* the store before the first request
InitPub ==
  /\ courses = [c \in CourseIds |-> NoCourse]
  /\ enrollments = [e \in Users \X CourseIds |-> NoEnrollment]
  /\ blogs = [b \in BlogIds |-> NoBlog]
  /\ ebooks = [e \in EbookIds |-> NoEbook]
  /\ sessions = [s \in SessionIds |-> NoSession]
  /\ now = 1
  /\ last = NoResult
  /\ mapUsers = [m \in MapUserIds |-> NoMapUser]
  /\ calls = [k \in CallIds |-> NoCall]
  /\ listing = NoListing
  /\ media = [c \in CourseIds |-> NoMedia]
  /\ uploads = [k \in CallIds |-> NoUpload]
  /\ accounts = NoAccounts
  /\ title = NoTitle

\* the admin-only routes (@Roles(UserRole.ADMIN)) reach the service only for
\* an admin requester
Admins == {u \in Users : Role(u) = "admin"}

NextPub ==
  \/ \E b \in FirstBlog, s \in BlogStatus \cup {ABSENT}, u \in Admins :
       createBlog(b, PlainTitle, NoSlug, s, FALSE, u)
  \/ \E b \in FirstBlog, s \in BlogStatus \cup {ABSENT}, u \in Admins :
       updateBlog(b, NoTitle, NoSlug, s, Role(u), u)
  \/ \E b \in FirstBlog, d \in SuppliedDates \cup {NULL} : publishBlog(b, d)
  \/ \E b \in FirstBlog : unpublishBlog(b)
  \* GET blogs/:id has no guard and passes UserRole.USER whoever asks;
  \* GET blogs/:id/admin is admin-only and passes the requester's role
  \/ \E b \in FirstBlog, u \in Users :
       \/ getBlogById(b, "user", u)
       \/ Role(u) = "admin" /\ getBlogById(b, Role(u), u)
  \/ \E c \in FirstCourse, s \in CourseStatus \cup {ABSENT},
        m \in {NoLimit} \cup (1..MaxCap), u \in Admins :
       createCourse(c, PlainTitle, NoSlug, s, m, u)
  \/ \E c \in FirstCourse, s \in CourseStatus \cup {ABSENT} :
       updateCourse(c, NoSlug, s)
  \/ \E c \in FirstCourse, d \in SuppliedDates \cup {NULL} : publishCourse(c, d)
  \/ \E c \in FirstCourse : unpublishCourse(c)
  \/ \E e \in FirstEbook, s \in EbookStatus \cup {ABSENT},
        d \in SuppliedDates \cup {NULL}, u \in Admins :
       createEbook(e, PlainTitle, NoSlug, s, d, u)
  \/ \E e \in FirstEbook, d \in SuppliedDates \cup {NULL} : publishEbook(e, d)
  \/ \E e \in FirstEbook : unpublishEbook(e)

SpecPub == InitPub /\ [][NextPub]_vars

(* ---------------------- live-session state machine --------------------- *)

\* `if (session.status !== SessionStatus.SCHEDULED)` of startLiveSession
StartRefused_liveToo(status) ==
  status \notin {"SCHEDULED", "POSTPONED"}

StartRefused(status) ==
  status # "SCHEDULED"

\* `if (session.status !== SessionStatus.LIVE)` of endLiveSession
EndRefused(status) ==
  status # "LIVE"

\* `if (session.status === SessionStatus.COMPLETED)` of cancelLiveSession
CancelRefused_terminal(status) ==
  status \in {"COMPLETED", "CANCELLED"}

CancelRefused(status) ==
  status = "COMPLETED"

\* LiveSessionService.createLiveSession(createSessionDto, createdById):
\* s is the fresh id; a scheduledAt that is not in the future is refused
createLiveSession(s, t, slug, status, isActive, scheduledAt, createdById) ==
  LET candidate == SlugOrGenerated(slug, generateSlug_LiveSession(t))
      sessionSlug == ensureUniqueSlug(sessions, candidate, NoId)
      R(res, msg) ==
        [Result("createLiveSession", res, msg, s, createdById, createdById)
           EXCEPT !.text = candidate]
  IN
  /\ now < MaxTime
  /\ ~sessions[s].exists
  /\ now' = now + 1
  /\ UNCHANGED aux
  /\ UNCHANGED <<courses, enrollments, blogs, ebooks>>
  /\ IF scheduledAt <= now
       THEN /\ last' = R("BadRequest", "Scheduled time must be in the future")
            /\ UNCHANGED sessions
     ELSE /\ sessions' = [sessions EXCEPT ![s] =
                            [exists |-> TRUE,
                             status |-> IF status = ABSENT
                                          THEN DefaultSessionStatus ELSE status,
                             createdById |-> createdById,
                             slug |-> sessionSlug, isActive |-> isActive]]
          /\ last' = R("ok", "")

\* LiveSessionService.updateLiveSession(id, updateSessionDto, userRole, userId):
\* a status in the DTO is part of `...rest` and is written as it is;
\* scheduledAt = NULL when the DTO carries none
updateLiveSession(s, t, slug, status, scheduledAt, userRole, userId) ==
  LET candidate == SlugOrGenerated(slug, generateSlug_LiveSession(t))
      R(res, msg) ==
        [Result("updateLiveSession", res, msg, s, sessions[s].createdById,
                userId)
           EXCEPT !.text = IF slug # NoSlug \/ t # NoTitle
                             THEN candidate ELSE NoSlug]
  IN
  /\ now < MaxTime
  /\ now' = now + 1
  /\ UNCHANGED aux
  /\ UNCHANGED <<courses, enrollments, blogs, ebooks>>
  /\ IF ~sessions[s].exists
       THEN /\ last' = R("NotFound", "Live session not found")
            /\ UNCHANGED sessions
     ELSE IF NotPermitted(userRole, sessions[s].createdById, userId)
       THEN /\ last' = R("Forbidden",
                 "You can only update your own sessions or you must be an admin")
            /\ UNCHANGED sessions
     ELSE IF scheduledAt # NULL /\ scheduledAt <= now
       THEN /\ last' = R("BadRequest", "Scheduled time must be in the future")
            /\ UNCHANGED sessions
     ELSE /\ sessions' = [sessions EXCEPT
                            ![s].status = IF status = ABSENT THEN @ ELSE status,
                            ![s].slug =
                               IF slug # NoSlug \/ t # NoTitle
                                 THEN ensureUniqueSlug(sessions, candidate, s)
                                 ELSE @]
          /\ last' = R("ok", "")

\* LiveSessionService.deleteLiveSession(id, userRole, userId)
deleteLiveSession(s, userRole, userId) ==
  LET R(res, msg) ==
        Result("deleteLiveSession", res, msg, s, sessions[s].createdById, userId)
  IN
  /\ now < MaxTime
  /\ now' = now + 1
  /\ UNCHANGED aux
  /\ UNCHANGED <<courses, enrollments, blogs, ebooks>>
  /\ IF ~sessions[s].exists
       THEN /\ last' = R("NotFound", "Live session not found")
            /\ UNCHANGED sessions
     ELSE IF NotPermitted(userRole, sessions[s].createdById, userId)
       THEN /\ last' = R("Forbidden",
                 "You can only delete your own sessions or you must be an admin")
            /\ UNCHANGED sessions
     ELSE /\ sessions' = [sessions EXCEPT ![s] = NoSession]
          /\ last' = R("ok", "")

\* LiveSessionService.startLiveSession(id)
startLiveSession(s) ==
  LET R(res, msg) == Result("startLiveSession", res, msg, s, "-", "-")
  IN
  /\ now < MaxTime
  /\ now' = now + 1
  /\ UNCHANGED aux
  /\ UNCHANGED <<courses, enrollments, blogs, ebooks>>
  /\ IF ~sessions[s].exists
       THEN /\ last' = R("NotFound", "Live session not found")
            /\ UNCHANGED sessions
     ELSE IF StartRefused(sessions[s].status)
       THEN /\ last' = R("BadRequest", "Session is not scheduled")
            /\ UNCHANGED sessions
     ELSE /\ sessions' = [sessions EXCEPT ![s].status = "LIVE"]
          /\ last' = R("ok", "")

\* LiveSessionService.endLiveSession(id)
endLiveSession(s) ==
  LET R(res, msg) == Result("endLiveSession", res, msg, s, "-", "-")
  IN
  /\ now < MaxTime
  /\ now' = now + 1
  /\ UNCHANGED aux
  /\ UNCHANGED <<courses, enrollments, blogs, ebooks>>
  /\ IF ~sessions[s].exists
       THEN /\ last' = R("NotFound", "Live session not found")
            /\ UNCHANGED sessions
     ELSE IF EndRefused(sessions[s].status)
       THEN /\ last' = R("BadRequest", "Session is not live")
            /\ UNCHANGED sessions
     ELSE /\ sessions' = [sessions EXCEPT ![s].status = "COMPLETED"]
          /\ last' = R("ok", "")

\* a cancelLiveSession that puts a session that has not started aside
\* instead of cancelling it
cancelLiveSession_postpones(s) ==
  LET R(res, msg) == Result("cancelLiveSession", res, msg, s, "-", "-")
  IN
  /\ now < MaxTime
  /\ now' = now + 1
  /\ UNCHANGED aux
  /\ UNCHANGED <<courses, enrollments, blogs, ebooks>>
  /\ IF ~sessions[s].exists
       THEN /\ last' = R("NotFound", "Live session not found")
            /\ UNCHANGED sessions
     ELSE IF CancelRefused(sessions[s].status)
       THEN /\ last' = R("BadRequest", "Cannot cancel a completed session")
            /\ UNCHANGED sessions
     ELSE /\ sessions' = [sessions EXCEPT ![s].status =
                            IF @ = "SCHEDULED" THEN "POSTPONED"
                                               ELSE "CANCELLED"]
          /\ last' = R("ok", "")

\* LiveSessionService.cancelLiveSession(id)
cancelLiveSession(s) ==
  LET R(res, msg) == Result("cancelLiveSession", res, msg, s, "-", "-")
  IN
  /\ now < MaxTime
  /\ now' = now + 1
  /\ UNCHANGED aux
  /\ UNCHANGED <<courses, enrollments, blogs, ebooks>>
  /\ IF ~sessions[s].exists
       THEN /\ last' = R("NotFound", "Live session not found")
            /\ UNCHANGED sessions
     ELSE IF CancelRefused(sessions[s].status)
       THEN /\ last' = R("BadRequest", "Cannot cancel a completed session")
            /\ UNCHANGED sessions
     ELSE /\ sessions' = [sessions EXCEPT ![s].status = "CANCELLED"]
          /\ last' = R("ok", "")

(* --------------------- live-session specification ---------------------- *)

NextSession ==
  \* the live-session routes are admin-only (@Roles(UserRole.ADMIN))
  \/ \E s \in SessionIds, st \in SessionStatus \cup {ABSENT},
        at \in ScheduledAts, u \in Admins :
       createLiveSession(s, PlainTitle, NoSlug, st, TRUE, at, u)
  \/ \E s \in SessionIds, st \in SessionStatus \cup {ABSENT},
        at \in ScheduledAts \cup {NULL}, u \in Admins :
       updateLiveSession(s, NoTitle, NoSlug, st, at, Role(u), u)
  \/ \E s \in SessionIds : startLiveSession(s)
  \/ \E s \in SessionIds : endLiveSession(s)
  \/ \E s \in SessionIds : cancelLiveSession(s)

SpecSession == InitPub /\ [][NextSession]_vars

(* ------------------------ fetching a single item ----------------------- *)

\* who sends a request: a signed-in user or an anonymous visitor
ANON == "anon"

Requesters == Users \cup {ANON}

\* the slugs a GET .../slug/:slug asks for: one that a created item holds and
\* one that no item holds
FetchSlugs == {Join(generateSlug_Blog(PlainTitle)), "zz"}

\* prisma.<type>.findUnique({ where: { slug } }): the ids of the rows found
FindBySlug(rows, slug) ==
  {i \in DOMAIN rows : rows[i].exists /\ rows[i].slug = slug}

\* BlogService.getBlogBySlug(slug, userRole): userRole = ABSENT when the
\* controller passes undefined; blog.isForDentist is read before the null
\* test, so a slug nobody holds ends in a TypeError for an undefined role
getBlogBySlug(slug, userRole, requester) ==
  LET found == FindBySlug(blogs, slug)
      R(b, res, msg) ==
        [Result("getBlogBySlug", res, msg, b, "-", requester)
           EXCEPT !.text = slug]
  IN
  /\ now < MaxTime
  /\ now' = now + 1
  /\ UNCHANGED aux
  /\ UNCHANGED <<courses, enrollments, ebooks, sessions>>
  /\ IF found = {}
       THEN /\ last' = IF userRole = ABSENT
                         THEN R(NoId, "InternalServerError",
                                "Cannot read properties of null")
                         ELSE R(NoId, "NotFound", "Blog not found")
            /\ UNCHANGED blogs
     ELSE \E b \in found :
            IF userRole = ABSENT /\ blogs[b].isForDentist
              THEN /\ last' = R(b, "Forbidden", "You can only view public blogs")
                   /\ UNCHANGED blogs
            ELSE IF userRole # "admin" /\ blogs[b].status # "PUBLISHED"
              THEN /\ last' = R(b, "NotFound", "Blog not found")
                   /\ UNCHANGED blogs
            ELSE /\ blogs' = [blogs EXCEPT ![b].viewCount =
                                IF blogs[b].status = "PUBLISHED"
                                  THEN @ + 1 ELSE @]
                 /\ last' = R(b, "ok", "")

\* CourseController.getCourseById over CourseService.getCourseById(id): the
\* service counts the view of a PUBLISHED course, the controller hides a
\* course that is not PUBLISHED from a role that is not admin
getCourseById(c, userRole, requester) ==
  LET R(res, msg) == Result("getCourseById", res, msg, c, "-", requester)
  IN
  /\ now < MaxTime
  /\ now' = now + 1
  /\ UNCHANGED aux
  /\ UNCHANGED <<enrollments, blogs, ebooks, sessions>>
  /\ IF ~courses[c].exists
       THEN /\ last' = R("NotFound", "Course not found")
            /\ UNCHANGED courses
     ELSE /\ courses' = [courses EXCEPT ![c].viewCount =
                           IF courses[c].status = "PUBLISHED" THEN @ + 1 ELSE @]
          /\ last' = IF courses[c].status # "PUBLISHED" /\ userRole # "admin"
                       THEN R("NotFound", "Course not found")
                       ELSE R("ok", "")

\* CourseService.getCourseBySlug(slug, userRole)
getCourseBySlug(slug, userRole, requester) ==
  LET found == FindBySlug(courses, slug)
      R(c, res, msg) ==
        [Result("getCourseBySlug", res, msg, c, "-", requester)
           EXCEPT !.text = slug]
  IN
  /\ now < MaxTime
  /\ now' = now + 1
  /\ UNCHANGED aux
  /\ UNCHANGED <<enrollments, blogs, ebooks, sessions>>
  /\ IF found = {}
       THEN /\ last' = R(NoId, "NotFound", "Course not found")
            /\ UNCHANGED courses
     ELSE \E c \in found :
            IF userRole # "admin" /\ courses[c].status # "PUBLISHED"
              THEN /\ last' = R(c, "NotFound", "Course not found")
                   /\ UNCHANGED courses
            ELSE /\ courses' = [courses EXCEPT ![c].viewCount =
                                  IF courses[c].status = "PUBLISHED"
                                    THEN @ + 1 ELSE @]
                 /\ last' = R(c, "ok", "")

\* EbookController.getEbookById over EbookService.getEbookById(id)
getEbookById(e, userRole, requester) ==
  LET R(res, msg) == Result("getEbookById", res, msg, e, "-", requester)
  IN
  /\ now < MaxTime
  /\ now' = now + 1
  /\ UNCHANGED aux
  /\ UNCHANGED <<courses, enrollments, blogs, sessions>>
  /\ IF ~ebooks[e].exists
       THEN /\ last' = R("NotFound", "Ebook not found")
            /\ UNCHANGED ebooks
     ELSE /\ ebooks' = [ebooks EXCEPT ![e].viewCount =
                          IF ebooks[e].status = "PUBLISHED" THEN @ + 1 ELSE @]
          /\ last' = IF ebooks[e].status # "PUBLISHED" /\ userRole # "admin"
                       THEN R("NotFound", "Ebook not found")
                       ELSE R("ok", "")

\* LiveSessionController.getLiveSessionById over
\* LiveSessionService.getLiveSessionById(id)
getLiveSessionById(s, userRole, requester) ==
  LET R(res, msg) == Result("getLiveSessionById", res, msg, s, "-", requester)
  IN
  /\ now < MaxTime
  /\ now' = now + 1
  /\ UNCHANGED aux
  /\ UNCHANGED <<courses, enrollments, blogs, ebooks, sessions>>
  /\ IF ~sessions[s].exists
       THEN last' = R("NotFound", "Live session not found")
     ELSE IF ~sessions[s].isActive /\ userRole # "admin"
       THEN last' = R("NotFound", "Live session not found")
     ELSE last' = R("ok", "")

\* LiveSessionService.getLiveSessionBySlug(slug, userRole)
getLiveSessionBySlug(slug, userRole, requester) ==
  LET found == FindBySlug(sessions, slug)
      R(s, res, msg) ==
        [Result("getLiveSessionBySlug", res, msg, s, "-", requester)
           EXCEPT !.text = slug]
  IN
  /\ now < MaxTime
  /\ now' = now + 1
  /\ UNCHANGED aux
  /\ UNCHANGED <<courses, enrollments, blogs, ebooks, sessions>>
  /\ IF found = {}
       THEN last' = R(NoId, "NotFound", "Live session not found")
     ELSE \E s \in found :
            IF userRole # "admin" /\ ~sessions[s].isActive
              THEN last' = R(s, "NotFound", "Live session not found")
              ELSE last' = R(s, "ok", "")

(* ------------------------ fetching: specification ---------------------- *)

\* the role a public route sees: `req.user` is set by AuthGuard only, so a
\* route without the guard passes undefined whoever asks
PublicRouteRole(requester) == ABSENT

\* the role a route behind AuthGuard sees: anonymous visitors do not reach it
GuardedRouteRole(requester) == Role(requester)

NextView ==
  \/ \E b \in FirstBlog, s \in BlogStatus, d \in BOOLEAN, u \in Admins :
       createBlog(b, PlainTitle, NoSlug, s, d, u)
  \/ \E c \in FirstCourse, s \in {"DRAFT", "PUBLISHED"}, u \in Admins :
       createCourse(c, PlainTitle, NoSlug, s, NoLimit, u)
  \/ \E e \in FirstEbook, s \in {"DRAFT", "PUBLISHED"}, u \in Admins :
       createEbook(e, PlainTitle, NoSlug, s, NULL, u)
  \/ \E s \in {"s1"}, a \in BOOLEAN, at \in ScheduledAts, u \in Admins :
       createLiveSession(s, PlainTitle, NoSlug, ABSENT, a, at, u)
  \/ \E b \in FirstBlog, u \in Requesters : getBlogById(b, "user", u)
  \/ \E slug \in FetchSlugs, u \in Requesters :
       getBlogBySlug(slug, PublicRouteRole(u), u)
  \/ \E c \in FirstCourse, u \in Requesters :
       getCourseById(c, PublicRouteRole(u), u)
  \/ \E slug \in FetchSlugs, u \in Requesters :
       getCourseBySlug(slug, PublicRouteRole(u), u)
  \/ \E e \in FirstEbook, u \in Requesters :
       getEbookById(e, PublicRouteRole(u), u)
  \/ \E s \in {"s1"}, u \in Users :
       getLiveSessionById(s, GuardedRouteRole(u), u)
  \/ \E slug \in FetchSlugs, u \in Users :
       getLiveSessionBySlug(slug, GuardedRouteRole(u), u)

SpecView == InitPub /\ [][NextView]_vars

(* ------------------ owner-or-admin check: specification ---------------- *)

NextAuthz ==
  \* the service methods called with the id and role of any user: the
  \* owner-or-admin test is the services' own, whatever guard the route carries
  \/ \E b \in FirstBlog, u \in Users :
       createBlog(b, PlainTitle, NoSlug, ABSENT, FALSE, u)
  \/ \E c \in FirstCourse, u \in Users :
       createCourse(c, PlainTitle, NoSlug, ABSENT, NoLimit, u)
  \/ \E e \in FirstEbook, u \in Users :
       createEbook(e, PlainTitle, NoSlug, ABSENT, NULL, u)
  \/ \E s \in {"s1"}, at \in ScheduledAts, u \in Users :
       createLiveSession(s, PlainTitle, NoSlug, ABSENT, TRUE, at, u)
  \/ \E b \in FirstBlog, st \in {ABSENT, "ARCHIVED"}, u \in Users :
       updateBlog(b, NoTitle, NoSlug, st, Role(u), u)
  \/ \E b \in FirstBlog, u \in Users : deleteBlog(b, Role(u), u)
  \/ \E e \in FirstEbook, st \in {ABSENT, "ARCHIVED"}, u \in Users :
       updateEbook(e, st, NULL, Role(u), u)
  \/ \E e \in FirstEbook, u \in Users : deleteEbook(e, Role(u), u)
  \/ \E s \in {"s1"}, st \in {ABSENT, "POSTPONED"},
        at \in ScheduledAts \cup {NULL}, u \in Users :
       updateLiveSession(s, NoTitle, NoSlug, st, at, Role(u), u)
  \/ \E s \in {"s1"}, u \in Users : deleteLiveSession(s, Role(u), u)
  \/ \E c \in FirstCourse, u \in Users : deleteCourse(c, Role(u), u)

SpecAuthz == InitPub /\ [][NextAuthz]_vars

(* ---------------------- slug uniqueness: specification ---------------- *)

\* a title whose slug is "ab-1" in every service: the slug that
\* ensureUniqueSlug makes of "ab" when "ab" is taken
NumberedTitle == <<"a", "b", " ", "1">>

SlugTitles == {PlainTitle, NumberedTitle}

\* the explicit slug of a DTO: none, or one that a title also generates
SlugInputs == {NoSlug, "ab"}

NextSlug ==
  \* the create, update and delete routes are admin-only; requests run one
  \* after the other
  \/ \E b \in BlogIds, t \in SlugTitles, slug \in SlugInputs, u \in Admins :
       createBlog(b, t, slug, ABSENT, FALSE, u)
  \/ \E b \in BlogIds, t \in SlugTitles \cup {NoTitle}, slug \in SlugInputs,
        u \in Admins :
       updateBlog(b, t, slug, ABSENT, Role(u), u)
  \/ \E b \in BlogIds, u \in Admins : deleteBlog(b, Role(u), u)
  \/ \E c \in CourseIds, t \in SlugTitles, slug \in SlugInputs, u \in Admins :
       createCourse(c, t, slug, ABSENT, NoLimit, u)
  \/ \E c \in CourseIds, slug \in SlugInputs : updateCourse(c, slug, ABSENT)
  \/ \E c \in CourseIds, u \in Admins : deleteCourse(c, Role(u), u)
  \/ \E e \in EbookIds, t \in SlugTitles, slug \in SlugInputs, u \in Admins :
       createEbook(e, t, slug, ABSENT, NULL, u)
  \/ \E e \in EbookIds, u \in Admins : updateEbook(e, ABSENT, NULL, Role(u), u)
  \/ \E e \in EbookIds, u \in Admins : deleteEbook(e, Role(u), u)
  \/ \E s \in SessionIds, t \in SlugTitles, slug \in SlugInputs, u \in Admins :
       createLiveSession(s, t, slug, ABSENT, TRUE, 100, u)
  \/ \E s \in SessionIds, t \in SlugTitles \cup {NoTitle}, slug \in SlugInputs,
        u \in Admins :
       updateLiveSession(s, t, slug, ABSENT, NULL, Role(u), u)
  \/ \E s \in SessionIds, u \in Admins : deleteLiveSession(s, Role(u), u)

SpecSlug == InitPub /\ [][NextSlug]_vars

(* ----------------------- generateSlug: specification ------------------ *)

\* the services that own a generateSlug
Services == {"Blog", "Course", "Ebook", "LiveSession"}

\* generateSlug of a service
generateSlug(service, t) ==
  CASE service = "Blog" -> generateSlug_Blog(t)
    [] service = "Course" -> generateSlug_Course(t)
    [] service = "Ebook" -> generateSlug_Ebook(t)
    [] OTHER -> generateSlug_LiveSession(t)

\* every title of at most MaxTitleLen characters
TitlesUpTo == UNION {[1..n -> Chars] : n \in 0..MaxTitleLen}

InitTitle ==
  /\ courses = [c \in CourseIds |-> NoCourse]
  /\ enrollments = [e \in Users \X CourseIds |-> NoEnrollment]
  /\ blogs = [b \in BlogIds |-> NoBlog]
  /\ ebooks = [e \in EbookIds |-> NoEbook]
  /\ sessions = [s \in SessionIds |-> NoSession]
  /\ now = 1
  /\ last = NoResult
  /\ mapUsers = [m \in MapUserIds |-> NoMapUser]
  /\ calls = [k \in CallIds |-> NoCall]
  /\ listing = NoListing
  /\ media = [c \in CourseIds |-> NoMedia]
  /\ uploads = [k \in CallIds |-> NoUpload]
  /\ accounts = NoAccounts
  /\ title \in TitlesUpTo

\* one call of generateSlug(title) of a service: `title` becomes the slug,
\* last.text keeps the title
ApplyGenerateSlug(service) ==
  /\ last.op = "none"
  /\ now' = now + 1
  /\ title' = generateSlug(service, title)
  /\ last' = [Result("generateSlug", "ok", "", service, "-", "-")
                EXCEPT !.text = Join(title)]
  /\ UNCHANGED <<courses, enrollments, blogs, ebooks, sessions, mapUsers, calls>>
  /\ UNCHANGED <<listing, media, uploads, accounts>>

NextTitle == \E service \in Services : ApplyGenerateSlug(service)

SpecTitle == InitTitle /\ [][NextTitle]_vars

(* ------------------------------ listings ------------------------------ *)

\* `Math.ceil(total / limitNum)` for a limit of 1 or more
ceil_floor(total, limitNum) ==
  total \div limitNum

ceil(total, limitNum) ==
  IF total % limitNum = 0 THEN total \div limitNum
                          ELSE total \div limitNum + 1

\* findMany({ where, orderBy, skip, take }) over n matching rows: a row is
\* named by its rank in the order asked for
findMany(n, skip, take) ==
  SubSeq([i \in 1..n |-> i], skip + 1, IF skip + take < n THEN skip + take ELSE n)

\* the decimal string of n, as a query string carries it (a sequence of
\* digit characters)
RECURSIVE Decimal(_)
Decimal(n) ==
  IF n < 10 THEN <<ToString(n)>>
  ELSE Append(Decimal(n \div 10), ToString(n % 10))

\* `parseInt(str, 10)` of a string of decimal digits
RECURSIVE parseInt(_)
parseInt(str) ==
  IF str = << >> THEN 0
  ELSE parseInt(SubSeq(str, 1, Len(str) - 1)) * 10
       + (CHOOSE d \in 0..9 : ToString(d) = str[Len(str)])

\* CourseService.getAllCourses(query) with query.page and query.limit the
\* strings page and limit
getAllCourses(page, limit) ==
  LET pageNum == parseInt(page)
      limitNum == parseInt(limit)
      skip == (pageNum - 1) * limitNum
      total == listing.matches
  IN
  /\ listing.op = "none"
  /\ now' = now + 1
  /\ listing' = [listing EXCEPT
                   !.op = "getAllCourses",
                   !.page = pageNum, !.limit = limitNum, !.skip = skip,
                   !.data = findMany(listing.matches, skip, limitNum),
                   !.total = total,
                   !.totalPages = ceil(total, limitNum),
                   !.hasNextPage = (pageNum * limitNum < total),
                   !.hasPrevPage = (pageNum > 1)]
  /\ last' = Result("getAllCourses", "ok", "", "-", "-", "-")
  /\ UNCHANGED <<courses, enrollments, blogs, ebooks, sessions, mapUsers,
                 calls, title, media, uploads, accounts>>

\* AlignerCaseService.getAllAlignerCases(query) with numbers page and limit;
\* the answer names its fields currentPage, itemsPerPage and totalItems
getAllAlignerCases(page, limit) ==
  LET skip == (page - 1) * limit
      total == listing.matches
      totalPages == ceil(total, limit)
  IN
  /\ listing.op = "none"
  /\ now' = now + 1
  /\ listing' = [listing EXCEPT
                   !.op = "getAllAlignerCases",
                   !.page = page, !.limit = limit, !.skip = skip,
                   !.data = findMany(listing.matches, skip, limit),
                   !.total = total,
                   !.totalPages = totalPages,
                   !.hasNextPage = (page < totalPages),
                   !.hasPrevPage = (page > 1)]
  /\ last' = Result("getAllAlignerCases", "ok", "", "-", "-", "-")
  /\ UNCHANGED <<courses, enrollments, blogs, ebooks, sessions, mapUsers,
                 calls, title, media, uploads, accounts>>

\* any number of matching rows, and no listing asked for yet
InitList ==
  /\ courses = [c \in CourseIds |-> NoCourse]
  /\ enrollments = [e \in Users \X CourseIds |-> NoEnrollment]
  /\ blogs = [b \in BlogIds |-> NoBlog]
  /\ ebooks = [e \in EbookIds |-> NoEbook]
  /\ sessions = [s \in SessionIds |-> NoSession]
  /\ now = 1
  /\ last = NoResult
  /\ mapUsers = [m \in MapUserIds |-> NoMapUser]
  /\ calls = [k \in CallIds |-> NoCall]
  /\ title = NoTitle
  /\ listing \in {[NoListing EXCEPT !.matches = n] : n \in 0..MaxRows}
  /\ media = [c \in CourseIds |-> NoMedia]
  /\ uploads = [k \in CallIds |-> NoUpload]
  /\ accounts = NoAccounts

NextList ==
  \/ \E page \in 1..MaxPage, limit \in 1..MaxLimit :
       getAllCourses(Decimal(page), Decimal(limit))
  \/ \E page \in 1..MaxPage, limit \in 1..MaxLimit :
       getAllAlignerCases(page, limit)

SpecList == InitList /\ [][NextList]_vars

(* -------------------- course media: upload in the background ---------- *)

\* `data: fileData` of CourseService.updateCourse: a key that fileData does
\* not carry leaves its column as it is
Patched_overwrites(row, fileData) ==
  fileData

Patched(row, fileData) ==
  [f \in DOMAIN row |-> IF fileData[f] # "" THEN fileData[f] ELSE row[f]]

\* CourseController.createCourse: the course row is created from the DTO
\* (dtoMedia are its thumbnailImage and videoFile strings), then
\* processFileUploadsAsync is started without await when a file is attached,
\* then the response is sent.  k is the background call, c the id of the
\* new row; the store never gives a new row the id of an earlier one
createCourseWithFiles(k, c, dtoMedia, files, u) ==
  LET candidate == SlugOrGenerated(NoSlug, generateSlug_Course(PlainTitle))
  IN
  /\ now < MaxTime
  /\ ~courses[c].exists
  /\ uploads[k].pc \in {"idle", "done"}
  /\ \A j \in CallIds : uploads[j].id # c
  /\ now' = now + 1
  /\ courses' = [courses EXCEPT ![c] =
                   [exists |-> TRUE, status |-> CreatedStatus(ABSENT),
                    publishedAt |-> NULL, maxEnrollments |-> NoLimit,
                    enrollmentCount |-> 0,
                    slug |-> ensureUniqueSlug(courses, candidate, NoId),
                    createdById |-> u, viewCount |-> 0]]
  /\ media' = [media EXCEPT ![c] = dtoMedia]
  /\ uploads' =
       IF files.thumbnailImage # "none" \/ files.videoFile # "none"
         THEN [uploads EXCEPT ![k] =
                 [pc |-> "uploading", id |-> c, files |-> files,
                  uploadedFiles |-> NoMedia]]
         ELSE uploads
  /\ last' = [Result("createCourse", "ok", "Course created successfully",
                     c, u, u) EXCEPT !.text = candidate]
  /\ UNCHANGED <<enrollments, blogs, ebooks, sessions, mapUsers, calls, title,
                 listing, accounts>>

\* `await Promise.allSettled(uploadPromises)`: a file that the validation
\* admits was sent to the media service, and ok tells per field whether the
\* upload gave a URL; a failure is logged.  Without a URL there is no patch
UploadsSettled(k, ok) ==
  LET job == uploads[k]
      uploadedFiles ==
        [f \in DOMAIN NoMedia |->
           IF job.files[f] = "valid" /\ ok[f] THEN "cdn/" \o f ELSE ""]
  IN
  /\ job.pc = "uploading"
  /\ uploads' = [uploads EXCEPT
                   ![k].uploadedFiles = uploadedFiles,
                   ![k].pc = IF uploadedFiles # NoMedia THEN "patch" ELSE "done"]
  /\ UNCHANGED <<courses, enrollments, blogs, ebooks, sessions, now, last,
                 mapUsers, calls, title, listing, media, accounts>>

\* `await this.courseService.updateCourse(courseId, uploadedFiles)` in the
\* try block of processFileUploadsAsync: the NotFoundException for a course
\* deleted meanwhile is caught and logged
PatchCourse(k) ==
  LET job == uploads[k]
  IN
  /\ job.pc = "patch"
  /\ uploads' = [uploads EXCEPT ![k].pc = "done"]
  /\ media' = IF courses[job.id].exists
                THEN [media EXCEPT ![job.id] = Patched(@, job.uploadedFiles)]
                ELSE media
  /\ UNCHANGED <<courses, enrollments, blogs, ebooks, sessions, now, last,
                 mapUsers, calls, title, listing, accounts>>

NextUpload ==
  \* one upload runs in the background at a time; the DTO names a thumbnail
  \* kept elsewhere, or no media
  \/ \E c \in CourseIds, u \in Admins,
        dtoMedia \in {NoMedia,
                      [NoMedia EXCEPT !.thumbnailImage = "https://elsewhere"]},
        files \in [DOMAIN NoMedia -> {"none", "valid", "invalid"}] :
       createCourseWithFiles("k1", c, dtoMedia, files, u)
  \/ \E ok \in [DOMAIN NoMedia -> BOOLEAN] : UploadsSettled("k1", ok)
  \/ PatchCourse("k1")
  \/ \E c \in CourseIds, u \in Admins : deleteCourse(c, Role(u), u)

SpecUpload == InitPub /\ [][NextUpload]_vars

(* ----------------------------- password reset ------------------------- *)

\* `new Date(Date.now() + 15 * 60 * 1000)`: the life of a reset token, in
\* clock values
ResetTokenTTL == 3

\* the columns resetPassword writes: the hash of the new password, and the
\* token and its expiry cleared
AfterReset_keepsToken(user, hashedPassword) ==
  [user EXCEPT !.password = hashedPassword]

AfterReset(user, hashedPassword) ==
  [password |-> hashedPassword, resetPasswordToken |-> "",
   resetPasswordExpires |-> NULL]

\* AuthService.forgotPassword({ email }): email is a user's, or nobody's;
\* `crypto.randomBytes(32).toString('hex')` is a token no earlier call drew
forgotPassword(email) ==
  LET resetToken == "t" \o ToString(accounts.issued + 1)
      R(msg) == Result("forgotPassword", "ok", msg, "-", "-", email)
  IN
  /\ now < MaxTime
  /\ now' = now + 1
  /\ UNCHANGED <<courses, enrollments, blogs, ebooks, sessions, mapUsers,
                 calls, title, listing, media, uploads>>
  /\ IF email \notin Users
       THEN /\ last' = R("If the email exists, a password reset link has been sent.")
            /\ UNCHANGED accounts
     ELSE /\ accounts' =
               [accounts EXCEPT
                  !.users[email].resetPasswordToken = resetToken,
                  !.users[email].resetPasswordExpires = now + ResetTokenTTL,
                  !.issued = @ + 1]
          /\ last' = [R("Reset password reset link sent successfully")
                        EXCEPT !.text = resetToken]

\* AuthService.resetPassword({ token, newPassword })
resetPassword(token, newPassword) ==
  LET found == {u \in Users :
                  /\ accounts.users[u].resetPasswordToken = token
                  /\ accounts.users[u].resetPasswordExpires > now}
      R(res, msg, u) ==
        [Result("resetPassword", res, msg, "-", "-", u) EXCEPT !.text = token]
  IN
  /\ now < MaxTime
  /\ now' = now + 1
  /\ UNCHANGED <<courses, enrollments, blogs, ebooks, sessions, mapUsers,
                 calls, title, listing, media, uploads>>
  /\ IF found = {}
       THEN /\ last' = R("BadRequest", "Invalid or expired reset token", "-")
            /\ UNCHANGED accounts
     ELSE LET u == CHOOSE x \in found : TRUE
          IN
          /\ accounts' =
               [accounts EXCEPT
                  !.users[u] = AfterReset(@, "hash(" \o newPassword \o ")"),
                  !.spent = @ \cup {token}]
          /\ last' = R("ok", "Password reset successfully", u)

NextAuth ==
  \/ \E email \in {"B", "C", "nobody"} : forgotPassword(email)
  \/ \E n \in 1..MaxTime, newPassword \in {"pw1", "pw2"} :
       resetPassword("t" \o ToString(n), newPassword)

SpecAuth == InitPub /\ [][NextAuth]_vars

(* ------------------- creation: calls interleaved at awaits ------------- *)

CreateOps == {"createBlog", "createCourse"}

\* the rows the lookups and the insert of a create call work on
SiblingRows(op) ==
  IF op = "createBlog" THEN blogs ELSE courses

\* `let blogSlug = slug || this.generateSlug(title)` and the first two lines
\* of ensureUniqueSlug: call k starts with title t and explicit slug `slug`
CreateBegin(k, op, t, slug, u) ==
  LET candidate ==
        SlugOrGenerated(slug, IF op = "createBlog" THEN generateSlug_Blog(t)
                                                   ELSE generateSlug_Course(t))
  IN
  /\ calls[k].pc = "idle"
  /\ calls' = [calls EXCEPT ![k] =
                 [NoCall EXCEPT !.pc = "probe", !.op = op, !.user = u,
                                !.slug = candidate, !.uniqueSlug = candidate,
                                !.counter = 1]]
  /\ UNCHANGED <<courses, enrollments, blogs, ebooks, sessions, now, last,
                 mapUsers, title>>
  /\ UNCHANGED <<listing, media, uploads, accounts>>

\* one turn of the loop of ensureUniqueSlug(slug): `await findUnique(...)`,
\* then the next candidate or the return
SlugProbe(k) ==
  /\ calls[k].pc = "probe"
  /\ IF FindBySlug(SiblingRows(calls[k].op), calls[k].uniqueSlug) # {}
       THEN calls' = [calls EXCEPT
                        ![k].uniqueSlug =
                           calls[k].slug \o "-" \o ToString(calls[k].counter),
                        ![k].counter = @ + 1]
       ELSE calls' = [calls EXCEPT ![k].pc = "insert"]
  /\ UNCHANGED <<courses, enrollments, blogs, ebooks, sessions, now, last,
                 mapUsers, title>>
  /\ UNCHANGED <<listing, media, uploads, accounts>>

\* `await this.prisma.blog.create(...)` with the slug ensureUniqueSlug
\* returned; b is the id the store gives the row.  The store refuses a slug
\* another blog holds; neither BlogService nor BlogController catches that
\* exception, so the framework answers 500
BlogInsert(k, b) ==
  LET u == calls[k].user
      blogSlug == calls[k].uniqueSlug
      R(res, msg) ==
        [Result("createBlog", res, msg, b, u, u) EXCEPT !.text = blogSlug]
  IN
  /\ calls[k].pc = "insert"
  /\ calls[k].op = "createBlog"
  /\ ~blogs[b].exists
  /\ calls' = [calls EXCEPT ![k] = NoCall]
  /\ UNCHANGED <<courses, enrollments, ebooks, sessions, now, mapUsers, title>>
  /\ UNCHANGED <<listing, media, uploads, accounts>>
  /\ IF SlugTaken(blogs, b, blogSlug)
       THEN /\ last' = R("InternalServerError", "Internal server error")
            /\ UNCHANGED blogs
     ELSE /\ blogs' = [blogs EXCEPT ![b] =
                         [exists |-> TRUE,
                          status |-> CreatedStatus(ABSENT),
                          publishedAt |-> NULL, authorId |-> u,
                          viewCount |-> 0, slug |-> blogSlug,
                          isForDentist |-> FALSE]]
          /\ last' = R("ok", "")

\* `await this.prisma.course.create(...)`; the catch of
\* CourseController.createCourse answers 500 with the message of the
\* exception of the store
CourseInsert(k, c) ==
  LET u == calls[k].user
      courseSlug == calls[k].uniqueSlug
      R(res, msg) ==
        [Result("createCourse", res, msg, c, u, u) EXCEPT !.text = courseSlug]
  IN
  /\ calls[k].pc = "insert"
  /\ calls[k].op = "createCourse"
  /\ ~courses[c].exists
  /\ calls' = [calls EXCEPT ![k] = NoCall]
  /\ UNCHANGED <<blogs, enrollments, ebooks, sessions, now, mapUsers, title>>
  /\ UNCHANGED <<listing, media, uploads, accounts>>
  /\ IF SlugTaken(courses, c, courseSlug)
       THEN /\ last' = R("InternalServerError", "Unique constraint failed")
            /\ UNCHANGED courses
     ELSE /\ courses' = [courses EXCEPT ![c] =
                           [exists |-> TRUE,
                            status |-> CreatedStatus(ABSENT),
                            publishedAt |-> NULL, maxEnrollments |-> NoLimit,
                            enrollmentCount |-> 0, slug |-> courseSlug,
                            createdById |-> u, viewCount |-> 0]]
          /\ last' = R("ok", "")

NextCreateRace ==
  \/ \E k \in CallIds, op \in CreateOps, t \in SlugTitles, slug \in SlugInputs,
        u \in Admins :
       CreateBegin(k, op, t, slug, u)
  \/ \E k \in CallIds : SlugProbe(k)
  \/ \E k \in CallIds, b \in BlogIds : BlogInsert(k, b)
  \/ \E k \in CallIds, c \in CourseIds : CourseInsert(k, c)

SpecCreateRace == InitPub /\ [][NextCreateRace]_vars

(* ----------------------------- map directory -------------------------- *)

Phones == {"p1", "p2"}

Locations == {"Oslo", "Paris"}

\* what MapService.getCoordinates(location) answers: null (no result, an
\* HTTP error or an exception), or the latitude and longitude of the first
\* result
NoCoordinates == [found |-> FALSE, latitude |-> 0, longitude |-> 0]

GeoResults ==
  {NoCoordinates} \cup
  {[found |-> TRUE, latitude |-> c[1], longitude |-> c[2]] :
     c \in {<<59, 10>>, <<48, 2>>}}

\* `if (!coordinates)`
Ungeocoded_never(coordinates) ==
  FALSE

Ungeocoded(coordinates) ==
  ~coordinates.found

\* `if (updateMapUserDto.location)`: the DTO carries a non-empty location
HasLocation(location) ==
  location \notin {ABSENT, ""}

\* prisma.mapUsers.findFirst({ where: { phone, id: { not: id } } })
PhoneTaken(phone, id) ==
  \E j \in MapUserIds : j # id /\ mapUsers[j].exists /\ mapUsers[j].phone = phone

\* the outcome of a map-directory call: the location of the DTO and what
\* getCoordinates answered for it
MapResult(op, res, msg, m, location, coordinates) ==
  [Result(op, res, msg, m, "-", "-")
     EXCEPT !.text = location, !.flag = coordinates.found,
            !.arg = coordinates.latitude, !.arg2 = coordinates.longitude]

\* MapUsersService.createMapUser(createMapUserDto): m is the fresh id and
\* coordinates the answer of getCoordinates(location)
createMapUser(m, phone, location, coordinates) ==
  LET R(res, msg) ==
        MapResult("createMapUser", res, msg, m, location, coordinates)
  IN
  /\ now < MaxTime
  /\ ~mapUsers[m].exists
  /\ now' = now + 1
  /\ UNCHANGED <<courses, enrollments, blogs, ebooks, sessions, calls, title>>
  /\ UNCHANGED <<listing, media, uploads, accounts>>
  /\ IF PhoneTaken(phone, NoId)
       THEN /\ last' = R("Conflict",
                         "A user with this phone number already exists")
            /\ UNCHANGED mapUsers
     ELSE IF Ungeocoded(coordinates)
       THEN /\ last' = R("Error", "Could not geocode the provided location")
            /\ UNCHANGED mapUsers
     ELSE /\ mapUsers' = [mapUsers EXCEPT ![m] =
                            [exists |-> TRUE, phone |-> phone,
                             location |-> location,
                             latitude |-> coordinates.latitude,
                             longitude |-> coordinates.longitude]]
          /\ last' = R("ok", "")

\* MapUsersService.updateMapUser(id, updateMapUserDto): getCoordinates is
\* asked only for a non-empty location; `latitude: coordinates?.latitude` is
\* undefined without one, and the store leaves the column as it is
updateMapUser(m, phone, location, coordinates) ==
  LET R(res, msg) ==
        MapResult("updateMapUser", res, msg, m, location, coordinates)
      existingUser == mapUsers[m]
  IN
  /\ now < MaxTime
  /\ now' = now + 1
  /\ UNCHANGED <<courses, enrollments, blogs, ebooks, sessions, calls, title>>
  /\ UNCHANGED <<listing, media, uploads, accounts>>
  /\ IF ~existingUser.exists
       THEN /\ last' = R("NotFound", "Map user not found")
            /\ UNCHANGED mapUsers
     ELSE IF phone \notin {ABSENT, ""} /\ phone # existingUser.phone
             /\ PhoneTaken(phone, m)
       THEN /\ last' = R("Conflict",
                         "A user with this phone number already exists")
            /\ UNCHANGED mapUsers
     ELSE IF HasLocation(location) /\ Ungeocoded(coordinates)
       THEN /\ last' = R("Error", "Could not geocode the provided location")
            /\ UNCHANGED mapUsers
     ELSE /\ mapUsers' = [mapUsers EXCEPT ![m] =
                            [exists |-> TRUE,
                             phone |-> IF phone = ABSENT THEN @.phone ELSE phone,
                             location |-> IF location = ABSENT
                                            THEN @.location ELSE location,
                             latitude |-> IF HasLocation(location)
                                            THEN coordinates.latitude
                                            ELSE @.latitude,
                             longitude |-> IF HasLocation(location)
                                             THEN coordinates.longitude
                                             ELSE @.longitude]]
          /\ last' = R("ok", "")

\* MapUsersService.deleteMapUser(id)
deleteMapUser(m) ==
  LET R(res, msg) == Result("deleteMapUser", res, msg, m, "-", "-")
  IN
  /\ now < MaxTime
  /\ now' = now + 1
  /\ UNCHANGED <<courses, enrollments, blogs, ebooks, sessions, calls, title>>
  /\ UNCHANGED <<listing, media, uploads, accounts>>
  /\ IF ~mapUsers[m].exists
       THEN /\ last' = R("NotFound", "Map user not found")
            /\ UNCHANGED mapUsers
     ELSE /\ mapUsers' = [mapUsers EXCEPT ![m] = NoMapUser]
          /\ last' = R("ok", "")

NextMap ==
  \/ \E m \in MapUserIds, phone \in Phones, location \in Locations,
        coordinates \in GeoResults :
       createMapUser(m, phone, location, coordinates)
  \/ \E m \in MapUserIds, phone \in Phones \cup {ABSENT},
        location \in Locations \cup {ABSENT, ""}, coordinates \in GeoResults :
       updateMapUser(m, phone, location, coordinates)
  \/ \E m \in MapUserIds : deleteMapUser(m)

SpecMap == InitPub /\ [][NextMap]_vars

(* ======================= properties: enrolment ========================= *)

\* the step just taken was a call of handler op on course c by user u
Called(op, c, u) ==
  /\ now' = now + 1
  /\ last'.op = op
  /\ last'.id = c
  /\ last'.user = u

\* number of enrolment rows of course c
RowCount(c) ==
  Cardinality({u \in Users : enrollments[<<u, c>>].exists})

\* C1: on a PUBLISHED course with maxEnrollments = N, enrollInCourse by a
\* user without a row fails with BadRequest 'Course enrollment limit reached'
\* when the ACTIVE count equals N, and succeeds when it equals N-1, creating
\* one row and incrementing enrollmentCount by exactly 1.
C1_CapacityBoundary ==
  [][\A c \in CourseIds, u \in Users :
       ( /\ Called("enrollInCourse", c, u)
         /\ courses[c].exists
         /\ courses[c].status = "PUBLISHED"
         /\ courses[c].maxEnrollments # NoLimit
         /\ ~enrollments[<<u, c>>].exists )
       =>
       /\ ActiveCount(c) = courses[c].maxEnrollments
            => /\ last'.result = "BadRequest"
               /\ last'.msg = "Course enrollment limit reached"
               /\ UNCHANGED <<courses, enrollments>>
       /\ ActiveCount(c) = courses[c].maxEnrollments - 1
            => /\ last'.result = "ok"
               /\ enrollments'[<<u, c>>].exists
               /\ \A e \in Users \X CourseIds :
                    e # <<u, c>> => enrollments'[e] = enrollments[e]
               /\ RowCount(c)' = RowCount(c) + 1
               /\ courses'[c].enrollmentCount = courses[c].enrollmentCount + 1
  ]_vars

\* a course with N > 1 is full after N successful enrolments (the last one
\* made at N-1) and the next enrolment was refused
C1_Witness ==
  \E c \in CourseIds :
    /\ last.op = "enrollInCourse"
    /\ last.id = c
    /\ last.msg = "Course enrollment limit reached"
    /\ ~enrollments[<<last.user, c>>].exists
    /\ courses[c].maxEnrollments > 1
    /\ ActiveCount(c) = courses[c].maxEnrollments
    /\ courses[c].enrollmentCount = courses[c].maxEnrollments

\* C2: on a PUBLISHED course enrollInCourse fails with Conflict whenever a
\* row for (userId, courseId) exists, whatever its status; the failed call
\* creates no row and leaves enrollmentCount unchanged.
C2_DuplicateConflict ==
  [][\A c \in CourseIds, u \in Users :
       ( /\ Called("enrollInCourse", c, u)
         /\ courses[c].exists
         /\ courses[c].status = "PUBLISHED"
         /\ enrollments[<<u, c>>].exists )
       =>
       /\ last'.result = "Conflict"
       /\ UNCHANGED <<courses, enrollments>>
  ]_vars

\* a user whose enrolment was cancelled tried to enrol again
C2_Witness ==
  /\ last.op = "enrollInCourse"
  /\ last.result = "Conflict"
  /\ \E c \in CourseIds :
       /\ last.id = c
       /\ enrollments[<<last.user, c>>].exists
       /\ enrollments[<<last.user, c>>].status = "CANCELLED"

\* the states of the scenario of C3 on course c1 (PUBLISHED, maxEnrollments 1)
ScnCourse(count) ==
  /\ courses["c1"].exists
  /\ courses["c1"].status = "PUBLISHED"
  /\ courses["c1"].maxEnrollments = 1
  /\ courses["c1"].enrollmentCount = count

ScnRows(rowA) ==
  /\ enrollments[<<"A", "c1">>] = rowA
  /\ \A u \in Users \ {"A"} : ~enrollments[<<u, "c1">>].exists

ScnStart == ScnCourse(0) /\ ScnRows(NoEnrollment)

ScnEnrolled ==
  /\ ScnCourse(1)
  /\ ScnRows([exists |-> TRUE, status |-> "ACTIVE", progress |-> 0,
              completedAt |-> NULL])

ScnCancelled ==
  /\ ScnCourse(0)
  /\ ScnRows([exists |-> TRUE, status |-> "CANCELLED", progress |-> 0,
              completedAt |-> NULL])

\* C3: with maxEnrollments = 1 and enrollmentCount = 0, the calls enroll(A),
\* enroll(B), cancel(A's enrolment, A), enroll(A) give in order: success with
\* enrollmentCount 1; BadRequest 'Course enrollment limit reached' with
\* enrollmentCount still 1; success with A's row CANCELLED and
\* enrollmentCount 0; Conflict with enrollmentCount still 0 and no ACTIVE row.
C3_Scenario ==
  [][ /\ (ScnStart /\ Called("enrollInCourse", "c1", "A"))
           => (last'.result = "ok" /\ ScnEnrolled')
      /\ (ScnEnrolled /\ Called("enrollInCourse", "c1", "B"))
           => ( /\ last'.result = "BadRequest"
                /\ last'.msg = "Course enrollment limit reached"
                /\ ScnEnrolled' )
      /\ (ScnEnrolled /\ Called("cancelEnrollment", "c1", "A")
                      /\ last'.owner = "A")
           => (last'.result = "ok" /\ ScnCancelled')
      /\ (ScnCancelled /\ Called("enrollInCourse", "c1", "A"))
           => ( /\ last'.result = "Conflict"
                /\ ScnCancelled'
                /\ ActiveCount("c1")' = 0 )
  ]_vars

\* the end of the scenario: four calls were made, the last one A's refused
\* re-enrolment on the emptied course
C3_Witness ==
  /\ now = 5
  /\ ScnCancelled
  /\ last = Result("enrollInCourse", "Conflict",
                   "You are already enrolled in this course", "c1", "A", "A")

BlogPublishSets ==
  \A b \in BlogIds :
    ( /\ Called("publishBlog", b, "-")
      /\ blogs[b].exists
      /\ blogs[b].status # "PUBLISHED" )
    => /\ last'.result = "ok"
       /\ blogs'[b].status = "PUBLISHED"
       /\ blogs'[b].publishedAt =
            IF last'.arg # NULL THEN last'.arg ELSE now

CoursePublishSets ==
  \A c \in CourseIds :
    ( /\ Called("publishCourse", c, "-")
      /\ courses[c].exists
      /\ courses[c].status # "PUBLISHED" )
    => /\ last'.result = "ok"
       /\ courses'[c].status = "PUBLISHED"
       /\ courses'[c].publishedAt =
            IF last'.arg # NULL THEN last'.arg ELSE now

\* unpublishBlog / unpublishCourse on a PUBLISHED row: DRAFT, publishedAt null
BlogUnpublishClears ==
  \A b \in BlogIds :
    ( /\ Called("unpublishBlog", b, "-")
      /\ blogs[b].exists
      /\ blogs[b].status = "PUBLISHED" )
    => /\ last'.result = "ok"
       /\ blogs'[b].status = "DRAFT"
       /\ blogs'[b].publishedAt = NULL

CourseUnpublishClears ==
  \A c \in CourseIds :
    ( /\ Called("unpublishCourse", c, "-")
      /\ courses[c].exists
      /\ courses[c].status = "PUBLISHED" )
    => /\ last'.result = "ok"
       /\ courses'[c].status = "DRAFT"
       /\ courses'[c].publishedAt = NULL

\* the same two statements read on an ebook's publishedDate
EbookPublishSets ==
  \A e \in EbookIds :
    ( /\ Called("publishEbook", e, "-")
      /\ ebooks[e].exists
      /\ ebooks[e].status # "PUBLISHED" )
    => /\ last'.result = "ok"
       /\ ebooks'[e].status = "PUBLISHED"
       /\ ebooks'[e].publishedDate =
            IF last'.arg # NULL THEN last'.arg ELSE now

EbookUnpublishClears ==
  \A e \in EbookIds :
    ( /\ Called("unpublishEbook", e, "-")
      /\ ebooks[e].exists
      /\ ebooks[e].status = "PUBLISHED" )
    => /\ last'.result = "ok"
       /\ ebooks'[e].status = "DRAFT"
       /\ ebooks'[e].publishedDate = NULL

\* what the ebook handlers do: publish writes publishedDate only when one is
\* supplied, unpublish leaves it alone
EbookPublishKeeps ==
  \A e \in EbookIds :
    ( /\ Called("publishEbook", e, "-")
      /\ ebooks[e].exists
      /\ ebooks[e].status # "PUBLISHED" )
    => /\ last'.result = "ok"
       /\ ebooks'[e].status = "PUBLISHED"
       /\ ebooks'[e].publishedDate =
            IF last'.arg # NULL THEN last'.arg ELSE ebooks[e].publishedDate

EbookUnpublishKeeps ==
  \A e \in EbookIds :
    ( /\ Called("unpublishEbook", e, "-")
      /\ ebooks[e].exists
      /\ ebooks[e].status = "PUBLISHED" )
    => /\ last'.result = "ok"
       /\ ebooks'[e].status = "DRAFT"
       /\ ebooks'[e].publishedDate = ebooks[e].publishedDate

\* C5 (as stated): for each of Blog, Course and Ebook, publish on an entity
\* that is not PUBLISHED sets status PUBLISHED and the publication timestamp
\* to the supplied value or else the server's time; unpublish on a PUBLISHED
\* entity sets status DRAFT and clears the timestamp to null.
C5_Original ==
  [][ /\ BlogPublishSets /\ BlogUnpublishClears
      /\ CoursePublishSets /\ CourseUnpublishClears
      /\ EbookPublishSets /\ EbookUnpublishClears ]_vars

\* C5 (amended): the statement holds for Blog and Course; for Ebook, publish
\* sets status PUBLISHED and writes publishedDate only when one is supplied
\* (otherwise it keeps its value), and unpublish sets status DRAFT and keeps
\* publishedDate.
C5_PublishTimestamp ==
  [][ /\ BlogPublishSets /\ BlogUnpublishClears
      /\ CoursePublishSets /\ CourseUnpublishClears
      /\ EbookPublishKeeps /\ EbookUnpublishKeeps ]_vars

\* a blog was published with a supplied date, and an ebook was unpublished
\* with its publishedDate still set
C5_Witness ==
  /\ \E b \in BlogIds :
       /\ blogs[b].status = "PUBLISHED"
       /\ blogs[b].publishedAt \in SuppliedDates
  /\ last.op = "unpublishEbook"
  /\ last.result = "ok"
  /\ ebooks[last.id].status = "DRAFT"
  /\ ebooks[last.id].publishedDate # NULL

\* the refused transitions, failing with error class err
PublishRefused(err) ==
  /\ \A b \in BlogIds :
       ( /\ Called("publishBlog", b, "-")
         /\ blogs[b].exists
         /\ blogs[b].status = "PUBLISHED" )
       => (last'.result = err /\ UNCHANGED blogs)
  /\ \A c \in CourseIds :
       ( /\ Called("publishCourse", c, "-")
         /\ courses[c].exists
         /\ courses[c].status = "PUBLISHED" )
       => (last'.result = err /\ UNCHANGED courses)
  /\ \A e \in EbookIds :
       ( /\ Called("publishEbook", e, "-")
         /\ ebooks[e].exists
         /\ ebooks[e].status = "PUBLISHED" )
       => (last'.result = err /\ UNCHANGED ebooks)

UnpublishRefused ==
  /\ \A b \in BlogIds :
       ( /\ Called("unpublishBlog", b, "-")
         /\ blogs[b].exists
         /\ blogs[b].status # "PUBLISHED" )
       => (last'.result # "ok" /\ UNCHANGED blogs)
  /\ \A c \in CourseIds :
       ( /\ Called("unpublishCourse", c, "-")
         /\ courses[c].exists
         /\ courses[c].status # "PUBLISHED" )
       => (last'.result # "ok" /\ UNCHANGED courses)
  /\ \A e \in EbookIds :
       ( /\ Called("unpublishEbook", e, "-")
         /\ ebooks[e].exists
         /\ ebooks[e].status # "PUBLISHED" )
       => (last'.result # "ok" /\ UNCHANGED ebooks)

\* C6 (as stated): publish on an already PUBLISHED blog, course or ebook fails
\* with a Conflict error, unpublish on one that is not PUBLISHED fails; the
\* status and the publication timestamp are unchanged in both cases.
C6_Original ==
  [][PublishRefused("Conflict") /\ UnpublishRefused]_vars

\* C6 (amended): publish on an already PUBLISHED blog, course or ebook fails
\* with a BadRequest error, unpublish on one that is not PUBLISHED fails; the
\* status and the publication timestamp are unchanged in both cases.
C6_RefusedTransitions ==
  [][PublishRefused("BadRequest") /\ UnpublishRefused]_vars

\* publish was refused on a PUBLISHED blog
C6_Witness ==
  /\ last.op = "publishBlog"
  /\ last.result = "BadRequest"
  /\ blogs[last.id].exists
  /\ blogs[last.id].status = "PUBLISHED"

\* C7: in every state reached through create, update, publish and unpublish
\* of blogs and courses, publishedAt is non-null iff status is PUBLISHED.
C7_PublishedAtIffPublished ==
  /\ \A b \in BlogIds :
       blogs[b].exists
         => (blogs[b].publishedAt # NULL <=> blogs[b].status = "PUBLISHED")
  /\ \A c \in CourseIds :
       courses[c].exists
         => (courses[c].publishedAt # NULL <=> courses[c].status = "PUBLISHED")

\* C10: getBlogById on a DRAFT blog: NotFound for a non-admin who is not the
\* author, the blog for its author and for an admin.
C10_DraftBlogVisibility ==
  \A b \in BlogIds :
    ( /\ last.op = "getBlogById"
      /\ last.id = b
      /\ blogs[b].exists
      /\ blogs[b].status = "DRAFT" )
    => IF Role(last.user) = "admin" \/ blogs[b].authorId = last.user
         THEN last.result = "ok"
         ELSE last.result = "NotFound"

(* ====================== properties: live sessions ====================== *)

\* C8: startLiveSession succeeds (status LIVE) iff the status is SCHEDULED;
\* endLiveSession succeeds (status COMPLETED) iff it is LIVE;
\* cancelLiveSession fails iff it is COMPLETED and otherwise sets CANCELLED
\* (also on a CANCELLED session); a failed call leaves the status unchanged.
C8_SessionGuards ==
  [][\A s \in SessionIds :
       sessions[s].exists =>
         /\ Called("startLiveSession", s, "-")
              => /\ last'.result = "ok" <=> sessions[s].status = "SCHEDULED"
                 /\ last'.result = "ok" => sessions'[s].status = "LIVE"
                 /\ last'.result # "ok" => UNCHANGED sessions
         /\ Called("endLiveSession", s, "-")
              => /\ last'.result = "ok" <=> sessions[s].status = "LIVE"
                 /\ last'.result = "ok" => sessions'[s].status = "COMPLETED"
                 /\ last'.result # "ok" => UNCHANGED sessions
         /\ Called("cancelLiveSession", s, "-")
              => /\ last'.result # "ok" <=> sessions[s].status = "COMPLETED"
                 /\ last'.result = "ok" => sessions'[s].status = "CANCELLED"
                 /\ last'.result # "ok" => UNCHANGED sessions
  ]_vars

\* cancelling a COMPLETED session was refused, while the other session is
\* cancelled
C8_Witness ==
  /\ last.op = "cancelLiveSession"
  /\ last.result = "BadRequest"
  /\ sessions[last.id].exists
  /\ sessions[last.id].status = "COMPLETED"
  /\ \E s \in SessionIds : sessions[s].exists /\ sessions[s].status = "CANCELLED"

\* C9: once a session is COMPLETED or CANCELLED, no startLiveSession,
\* endLiveSession, cancelLiveSession or updateLiveSession call changes its
\* status to a different value.
C9_TerminalStatus ==
  [][\A s \in SessionIds :
       ( /\ sessions[s].exists
         /\ sessions[s].status \in {"COMPLETED", "CANCELLED"}
         /\ last'.op \in {"startLiveSession", "endLiveSession",
                          "cancelLiveSession", "updateLiveSession"} )
       => sessions'[s].status = sessions[s].status
  ]_vars

(* ==================== properties: fetching one item ==================== *)

FetchOps ==
  {"getBlogById", "getBlogBySlug", "getCourseById", "getCourseBySlug",
   "getEbookById", "getLiveSessionById", "getLiveSessionBySlug"}

\* the item of the last fetch is one a non-admin may see
Published(op, id) ==
  CASE op \in {"getBlogById", "getBlogBySlug"} ->
         id \in BlogIds /\ blogs[id].exists /\ blogs[id].status = "PUBLISHED"
    [] op \in {"getCourseById", "getCourseBySlug"} ->
         id \in CourseIds /\ courses[id].exists
         /\ courses[id].status = "PUBLISHED"
    [] op = "getEbookById" ->
         id \in EbookIds /\ ebooks[id].exists /\ ebooks[id].status = "PUBLISHED"
    [] OTHER ->
         id \in SessionIds /\ sessions[id].exists /\ sessions[id].isActive

\* C11: a requester who is not an admin (a signed-in user or an anonymous
\* visitor) fetching a blog, course, ebook or live session by id or by slug
\* gets the item only if it is PUBLISHED (isActive for a live session); in
\* every other case the outcome is NotFound, never Forbidden.
C11_NonAdminFetch ==
  [][( /\ now' = now + 1
       /\ last'.op \in FetchOps
       /\ last'.user \notin Admins )
     =>
     IF Published(last'.op, last'.id)
       THEN last'.result = "ok"
       ELSE last'.result = "NotFound"
  ]_vars

(* ================== properties: owner-or-admin check =================== *)

ManageOps ==
  {"updateBlog", "deleteBlog", "updateEbook", "deleteEbook",
   "updateLiveSession", "deleteLiveSession", "deleteCourse"}

\* the row that a call of op on id starts from
ManagedRow(op, id) ==
  CASE op \in {"updateBlog", "deleteBlog"} -> blogs[id]
    [] op \in {"updateEbook", "deleteEbook"} -> ebooks[id]
    [] op \in {"updateLiveSession", "deleteLiveSession"} -> sessions[id]
    [] OTHER -> courses[id]

\* the owner column of that row
ManagedOwner(op, id) ==
  CASE op \in {"updateBlog", "deleteBlog"} -> blogs[id].authorId
    [] op \in {"updateEbook", "deleteEbook"} -> ebooks[id].uploadedById
    [] op \in {"updateLiveSession", "deleteLiveSession"} ->
         sessions[id].createdById
    [] OTHER -> courses[id].createdById

\* C12: updateBlog, deleteBlog, updateEbook, deleteEbook, updateLiveSession,
\* deleteLiveSession and deleteCourse on an existing entity by a requester who
\* is neither an admin nor its owner fail with Forbidden and change nothing;
\* by an admin or the owner they pass the authorization check; on a missing
\* id they fail with NotFound.
C12_OwnerOrAdmin ==
  [][( /\ now' = now + 1
       /\ last'.op \in ManageOps )
     =>
     LET op == last'.op
         id == last'.id
         u == last'.user
     IN
     IF ~ManagedRow(op, id).exists
       THEN /\ last'.result = "NotFound"
            /\ UNCHANGED <<courses, blogs, ebooks, sessions>>
     ELSE IF Role(u) # "admin" /\ ManagedOwner(op, id) # u
       THEN /\ last'.result = "Forbidden"
            /\ UNCHANGED <<courses, blogs, ebooks, sessions>>
     ELSE last'.result \notin {"Forbidden", "NotFound"}
  ]_vars

\* a user who is no admin was refused on the course of another user who is
\* no admin either, and the course is still there
C12_Witness ==
  /\ last.op = "deleteCourse"
  /\ last.result = "Forbidden"
  /\ Role(last.user) # "admin"
  /\ courses[last.id].exists
  /\ courses[last.id].createdById \notin {last.user} \cup Admins

(* ===================== properties: slug uniqueness ===================== *)

\* no two rows of rows hold the same slug
SlugsDistinct(rows) ==
  \A i, j \in DOMAIN rows :
    (i # j /\ rows[i].exists /\ rows[j].exists) => rows[i].slug # rows[j].slug

\* C13: in every state reached by sequential create, update and delete calls
\* on blogs, courses, ebooks and live sessions (updates with a new title or
\* an explicit slug included), no two entities of one type share a slug.
C13_SlugUnique ==
  /\ SlugsDistinct(blogs)
  /\ SlugsDistinct(courses)
  /\ SlugsDistinct(ebooks)
  /\ SlugsDistinct(sessions)

\* three blogs asked for "ab" and hold "ab", "ab-1" and "ab-2", and one of
\* them was then updated with the candidate "ab"
C13_Witness ==
  /\ \A b \in BlogIds : blogs[b].exists
  /\ {blogs[b].slug : b \in BlogIds} = {"ab", "ab-1", "ab-2"}
  /\ last.op = "updateBlog"
  /\ last.text = "ab"

\* the candidates handed to ensureUniqueSlug: slugs that rows hold and one
\* that no row holds
Candidates == {"ab", "ab-1", "zz"}

\* ensureUniqueSlug over rows answers, for every candidate and excludeId, a
\* slug that no row other than excludeId holds
ReturnsFree(rows) ==
  \A cand \in Candidates, ex \in DOMAIN rows \cup {NoId} :
    ~SlugTaken(rows, ex, ensureUniqueSlug(rows, cand, ex))

\* the step persisted row id of rows with the slug that ensureUniqueSlug
\* returned for the candidate last.text
Persisted(ops, rows, id) ==
  /\ now' = now + 1
  /\ last'.op \in ops
  /\ last'.result = "ok"
  /\ last'.id = id
  /\ last'.text # NoSlug

\* C14: for every set of sibling slugs and every candidate,
\* ensureUniqueSlug(candidate, excludeId) returns a slug held by no sibling
\* other than excludeId; and once an entity is persisted with the returned
\* slug, ensureUniqueSlug with the same candidate and that entity's id as
\* excludeId returns the same slug.
C14_EnsureUniqueSlug ==
  /\ [](/\ ReturnsFree(blogs) /\ ReturnsFree(courses)
        /\ ReturnsFree(ebooks) /\ ReturnsFree(sessions))
  /\ [][ /\ \A b \in BlogIds :
               Persisted({"createBlog", "updateBlog"}, blogs, b)
               => ensureUniqueSlug(blogs', last'.text, b) = blogs'[b].slug
          /\ \A c \in CourseIds :
               Persisted({"createCourse"}, courses, c)
               => ensureUniqueSlug(courses', last'.text, c) = courses'[c].slug
          /\ \A e \in EbookIds :
               Persisted({"createEbook"}, ebooks, e)
               => ensureUniqueSlug(ebooks', last'.text, e) = ebooks'[e].slug
          /\ \A x \in SessionIds :
               Persisted({"createLiveSession", "updateLiveSession"}, sessions, x)
               => ensureUniqueSlug(sessions', last'.text, x) = sessions'[x].slug
     ]_vars

\* a blog was created with the candidate "ab" while two siblings held "ab"
\* and "ab-1", and was persisted with "ab-2"
C14_Witness ==
  /\ last.op = "createBlog"
  /\ last.text = "ab"
  /\ blogs[last.id].slug = "ab-2"
  /\ \E i, j \in BlogIds \ {last.id} :
       /\ blogs[i].exists /\ blogs[i].slug = "ab"
       /\ blogs[j].exists /\ blogs[j].slug = "ab-1"

(* ======================= properties: generateSlug ====================== *)

\* lower-case letters, digits and hyphens only, no hyphen at either end
UrlSafe(slug) ==
  /\ \A i \in 1..Len(slug) : slug[i] \in AlnumChars \cup {"-"}
  /\ slug # << >> => slug[1] # "-" /\ slug[Len(slug)] # "-"

\* C15: for every title T, generateSlug(T) of every service is lower-case,
\* holds only characters of [a-z0-9-] and neither begins nor ends with a
\* hyphen.
C15_GenerateSlugShape ==
  [][(now' = now + 1 /\ last'.op = "generateSlug") => UrlSafe(title')]_vars

\* the blog service made "a" of the title "-A ": a hyphen in front, an
\* upper-case letter and a space at the end
C15_Witness ==
  /\ last.op = "generateSlug"
  /\ last.id = "Blog"
  /\ last.text = "-A "
  /\ title = <<"a">>

(* ================= properties: progress and ownership ================== *)

\* C16: in every reachable state every enrolment's progress lies in
\* [0,100]; a PATCH courses/enrollments/:id/progress with a value below 0 or
\* above 100 is rejected by validation and never stored.
C16_ProgressInRange ==
  \A e \in Users \X CourseIds :
    enrollments[e].exists =>
      enrollments[e].progress >= 0 /\ enrollments[e].progress <= 100

\* C17: updateEnrollmentProgress and cancelEnrollment called with a userId
\* that is not the enrolment's userId fail with Forbidden, whatever the
\* caller's role, and called on a missing enrolment fail with NotFound; in
\* both cases the enrolment row and the course's enrollmentCount stay as
\* they are.
C17_OwnerOnly ==
  [][\A o \in Users, c \in CourseIds, u \in Users :
       ( /\ \/ Called("updateEnrollmentProgress", c, u)
            \/ Called("cancelEnrollment", c, u)
         /\ last'.owner = o )
       =>
       /\ ~enrollments[<<o, c>>].exists
            => /\ last'.result = "NotFound"
               /\ UNCHANGED <<courses, enrollments>>
       /\ (enrollments[<<o, c>>].exists /\ o # u)
            => /\ last'.result = "Forbidden"
               /\ UNCHANGED <<courses, enrollments>>
  ]_vars

\* the admin was refused the cancellation of another user's ACTIVE
\* enrolment, which still counts
C17_Witness ==
  /\ last.op = "cancelEnrollment"
  /\ last.result = "Forbidden"
  /\ Role(last.user) = "admin"
  /\ last.owner # last.user
  /\ enrollments[<<last.owner, last.id>>].exists
  /\ enrollments[<<last.owner, last.id>>].status = "ACTIVE"
  /\ courses[last.id].enrollmentCount = 1

(* ======================= properties: map directory ===================== *)

\* the step was a createMapUser or updateMapUser call on row m
MapWrite(m) ==
  /\ now' = now + 1
  /\ last'.op \in {"createMapUser", "updateMapUser"}
  /\ last'.id = m

\* C18: createMapUser, and updateMapUser with a location, fail when
\* geocoding of the location gives no coordinates, and then no map-user row
\* is created or modified; the latitude and longitude of every stored map
\* user are what a successful geocoding call answered; updateMapUser
\* without a location leaves latitude and longitude as they are.
C18_Geocoded ==
  [][\A m \in MapUserIds :
       /\ ( /\ MapWrite(m)
            /\ HasLocation(last'.text)
            /\ ~last'.flag )
          => /\ last'.result # "ok"
             /\ UNCHANGED mapUsers
       /\ ( /\ mapUsers'[m].exists
            /\ \/ ~mapUsers[m].exists
               \/ mapUsers'[m].latitude # mapUsers[m].latitude
               \/ mapUsers'[m].longitude # mapUsers[m].longitude )
          => /\ MapWrite(m)
             /\ last'.result = "ok"
             /\ HasLocation(last'.text)
             /\ last'.flag
             /\ mapUsers'[m].latitude = last'.arg
             /\ mapUsers'[m].longitude = last'.arg2
       /\ ( /\ MapWrite(m)
            /\ last'.op = "updateMapUser"
            /\ ~HasLocation(last'.text)
            /\ mapUsers[m].exists )
          => /\ mapUsers'[m].latitude = mapUsers[m].latitude
             /\ mapUsers'[m].longitude = mapUsers[m].longitude
  ]_vars

\* an update with a location that geocoding did not find was refused, and
\* the row keeps the location and the coordinates of its creation
C18_Witness ==
  /\ last.op = "updateMapUser"
  /\ last.result = "Error"
  /\ last.text = "Paris"
  /\ ~last.flag
  /\ mapUsers[last.id].exists
  /\ mapUsers[last.id].location = "Oslo"
  /\ mapUsers[last.id].latitude = 59
  /\ mapUsers[last.id].longitude = 10

(* =================== properties: interleaved enrolment ================= *)

\* call k counted the ACTIVE rows and is about to insert
AboutToInsert(k) ==
  calls[k].pc = "create"

\* C19: enrollInCourse does not look at the cap again when it inserts: a
\* call that passed the ACTIVE-count check inserts its ACTIVE row whatever
\* the count has become since, unless its user has a row by then.  So two
\* interleaved calls on a PUBLISHED course with maxEnrollments = N and N-1
\* ACTIVE rows can both insert and leave N+1 ACTIVE rows; with two calls in
\* flight the cap is never passed by more than one.
C19_OverEnrollment ==
  /\ [](\A c \in CourseIds :
          courses[c].maxEnrollments # NoLimit
            => ActiveCount(c) <= courses[c].maxEnrollments
                                   + Cardinality(CallIds) - 1)
  /\ [][\A k \in CallIds :
          ( /\ AboutToInsert(k)
            /\ calls'[k] # calls[k]
            /\ ~existingEnrollment(calls[k].user, calls[k].id) )
          => /\ calls'[k].pc = "increment"
             /\ enrollments'[<<calls[k].user, calls[k].id>>].exists
             /\ enrollments'[<<calls[k].user, calls[k].id>>].status = "ACTIVE"
     ]_vars

\* a PUBLISHED course of cap N holds N+1 ACTIVE rows, the last of them
\* inserted by a call that is still in flight
C19_Witness ==
  \E c \in CourseIds, k \in CallIds :
    /\ courses[c].status = "PUBLISHED"
    /\ courses[c].maxEnrollments # NoLimit
    /\ ActiveCount(c) = courses[c].maxEnrollments + 1
    /\ ActiveCount(c) = Cardinality(Users)
    /\ calls[k].pc = "increment"
    /\ calls[k].id = c

(* ==================== properties: interleaved creation ================= *)

\* call k is about to insert a slug that a sibling took after k's lookup
LostRace(k) ==
  /\ calls[k].pc = "insert"
  /\ FindBySlug(SiblingRows(calls[k].op), calls[k].uniqueSlug) # {}

\* C20: when two create calls of one entity type with the same title
\* interleave and both leave ensureUniqueSlug with the same slug, the later
\* insert is refused by the unique index on slug, the refusal reaches the
\* caller as a Conflict, and no two entities of the type ever share a slug.
C20_RaceConflict ==
  /\ [](SlugsDistinct(blogs) /\ SlugsDistinct(courses))
  /\ [][\A k \in CallIds :
          (LostRace(k) /\ calls'[k] # calls[k])
            => /\ UNCHANGED <<blogs, courses>>
               /\ last'.result = "Conflict"
     ]_vars

(* ================= properties: enrolment, order and counters =========== *)

\* C21: enrollInCourse tests, in this order, that the course exists
\* (NotFound), that it is PUBLISHED (BadRequest), that the user has no row
\* for it (Conflict) and, when maxEnrollments is set, that the ACTIVE count
\* is below it (BadRequest); the error is that of the first test that
\* fails, and a failed call creates no row and leaves enrollmentCount alone.
C21_PreconditionOrder ==
  [][\A c \in CourseIds, u \in Users :
       Called("enrollInCourse", c, u)
       =>
       /\ last'.result =
            IF ~courses[c].exists THEN "NotFound"
            ELSE IF courses[c].status # "PUBLISHED" THEN "BadRequest"
            ELSE IF enrollments[<<u, c>>].exists THEN "Conflict"
            ELSE IF /\ courses[c].maxEnrollments # NoLimit
                    /\ ActiveCount(c) >= courses[c].maxEnrollments
              THEN "BadRequest"
            ELSE "ok"
       /\ last'.msg =
            IF ~courses[c].exists THEN "Course not found"
            ELSE IF courses[c].status # "PUBLISHED"
              THEN "Course is not available for enrollment"
            ELSE IF enrollments[<<u, c>>].exists
              THEN "You are already enrolled in this course"
            ELSE IF /\ courses[c].maxEnrollments # NoLimit
                    /\ ActiveCount(c) >= courses[c].maxEnrollments
              THEN "Course enrollment limit reached"
            ELSE ""
       /\ last'.result # "ok" => UNCHANGED <<courses, enrollments>>
  ]_vars

\* a user with an ACTIVE row on a full course enrolled again: both the
\* third and the fourth test fail, and the answer is the third's
C21_Witness ==
  \E c \in CourseIds :
    /\ last.op = "enrollInCourse"
    /\ last.id = c
    /\ last.result = "Conflict"
    /\ enrollments[<<last.user, c>>].status = "ACTIVE"
    /\ courses[c].maxEnrollments # NoLimit
    /\ ActiveCount(c) = courses[c].maxEnrollments

\* C22: when the calls run one at a time, each course's enrollmentCount is
\* the number of its enrolment rows that are not CANCELLED, and so is never
\* negative.
C22_CountMatchesRows ==
  \A c \in CourseIds :
    /\ courses[c].enrollmentCount =
         Cardinality({u \in Users : /\ enrollments[<<u, c>>].exists
                                    /\ enrollments[<<u, c>>].status # "CANCELLED"})
    /\ courses[c].enrollmentCount >= 0

\* C23: when the calls run one at a time, a course with maxEnrollments set
\* never has more ACTIVE enrolments than maxEnrollments.
C23_ActiveWithinCap ==
  \A c \in CourseIds :
    courses[c].maxEnrollments # NoLimit
      => ActiveCount(c) <= courses[c].maxEnrollments

\* a course is full again after one of its places was given up: it has more
\* rows than places, and as many ACTIVE rows as places
C23_Witness ==
  \E c \in CourseIds :
    /\ courses[c].maxEnrollments # NoLimit
    /\ ActiveCount(c) = courses[c].maxEnrollments
    /\ RowCount(c) > courses[c].maxEnrollments
    /\ last.op = "enrollInCourse"
    /\ last.result = "ok"

\* C24: an enrolment that is CANCELLED stays CANCELLED under every later
\* updateEnrollmentProgress and cancelEnrollment call.
C24_CancelledStays ==
  [][\A e \in Users \X CourseIds :
       (enrollments[e].exists /\ enrollments[e].status = "CANCELLED")
         => enrollments'[e].status = "CANCELLED"
  ]_vars

\* C25: an enrolment whose status is COMPLETED has progress >= 100.
C25_CompletedMeansFull ==
  \A e \in Users \X CourseIds :
    (enrollments[e].exists /\ enrollments[e].status = "COMPLETED")
      => enrollments[e].progress >= 100

(* ================= properties: the probe of ensureUniqueSlug =========== *)

\* the slugs of the rows a lookup of ensureUniqueSlug(_, excludeId) can find
SiblingSlugs(rows, excludeId) ==
  {rows[i].slug : i \in {j \in DOMAIN rows : rows[j].exists /\ j # excludeId}}

\* the n-th candidate: base, base-1, base-2, ...
Suffixed(base, n) ==
  IF n = 0 THEN base ELSE base \o "-" \o ToString(n)

\* r is the first of base, base-1, base-2, ... that is not in taken
FirstFree(r, base, taken) ==
  \E n \in 0..Cardinality(taken) :
    /\ r = Suffixed(base, n)
    /\ r \notin taken
    /\ \A m \in 0..(n - 1) : Suffixed(base, m) \in taken

\* ensureUniqueSlug over rows has a value for every candidate and excludeId,
\* and the value is the first free candidate
ProbesInOrder(rows) ==
  \A cand \in Candidates, ex \in DOMAIN rows \cup {NoId} :
    FirstFree(ensureUniqueSlug(rows, cand, ex), cand, SiblingSlugs(rows, ex))

\* C26: for every finite set of sibling slugs ensureUniqueSlug(base,
\* excludeId) ends; it returns base when no sibling other than excludeId
\* holds base, and otherwise base-n for the least n >= 1 such that no
\* sibling other than excludeId holds base-n, the suffix being appended to
\* base and never to an earlier candidate.
C26_LeastFreeSuffix ==
  /\ [](/\ ProbesInOrder(blogs) /\ ProbesInOrder(courses)
        /\ ProbesInOrder(ebooks) /\ ProbesInOrder(sessions))
  /\ [][ /\ \A b \in BlogIds :
               Persisted({"createBlog", "updateBlog"}, blogs, b)
               => FirstFree(blogs'[b].slug, last'.text, SiblingSlugs(blogs, b))
          /\ \A c \in CourseIds :
               Persisted({"createCourse"}, courses, c)
               => FirstFree(courses'[c].slug, last'.text,
                            SiblingSlugs(courses, c))
          /\ \A e \in EbookIds :
               Persisted({"createEbook"}, ebooks, e)
               => FirstFree(ebooks'[e].slug, last'.text, SiblingSlugs(ebooks, e))
          /\ \A x \in SessionIds :
               Persisted({"createLiveSession", "updateLiveSession"}, sessions, x)
               => FirstFree(sessions'[x].slug, last'.text,
                            SiblingSlugs(sessions, x))
     ]_vars

\* a blog was updated with the explicit slug "ab" while two other blogs held
\* "ab" and "ab-1": the probe went ab, ab-1, ab-2 and the blog holds "ab-2"
C26_Witness ==
  /\ last.op = "updateBlog"
  /\ last.result = "ok"
  /\ last.text = "ab"
  /\ blogs[last.id].slug = "ab-2"
  /\ \E i, j \in BlogIds \ {last.id} :
       /\ blogs[i].exists /\ blogs[i].slug = "ab"
       /\ blogs[j].exists /\ blogs[j].slug = "ab-1"

(* ================== properties: the POSTPONED status =================== *)

\* C27: startLiveSession, endLiveSession and cancelLiveSession never set a
\* session's status to POSTPONED: a session becomes POSTPONED only in a
\* createLiveSession or updateLiveSession call, which write the status of
\* their DTO, and a guarded action leaves a POSTPONED session POSTPONED or
\* moves it to another status.
C27_PostponedOnlyByWrite ==
  [][\A s \in SessionIds :
       /\ ( /\ sessions'[s].exists
            /\ sessions'[s].status = "POSTPONED"
            /\ ~(sessions[s].exists /\ sessions[s].status = "POSTPONED") )
          => /\ last'.op \in {"createLiveSession", "updateLiveSession"}
             /\ last'.id = s
             /\ last'.result = "ok"
       /\ ( /\ last'.op \in {"startLiveSession", "endLiveSession",
                             "cancelLiveSession"}
            /\ now' = now + 1
            /\ last'.id = s
            /\ last'.result = "ok" )
          => sessions'[s].status \in {"LIVE", "COMPLETED", "CANCELLED"}
  ]_vars

\* a session that the status of a DTO had set to POSTPONED was refused its
\* start and is still POSTPONED
C27_Witness ==
  /\ last.op = "startLiveSession"
  /\ last.result = "BadRequest"
  /\ sessions[last.id].exists
  /\ sessions[last.id].status = "POSTPONED"

(* ========================= properties: listings ======================== *)

\* C28: a listing asked for with page >= 1 and limit >= 1 over T matching
\* rows skips (page-1)*limit rows and returns the rows at offsets
\* [skip, skip+limit) of the sorted matches, at most limit of them; total is
\* T, totalPages is ceil(T/limit), hasPrevPage holds iff page > 1, and
\* hasNextPage holds iff page*limit < T, which is the same as
\* page < totalPages.
C28_Pagination ==
  listing.op # "none" =>
    LET T == listing.matches
        rowsLeft == IF T > listing.skip THEN T - listing.skip ELSE 0
    IN
    /\ listing.skip = (listing.page - 1) * listing.limit
    /\ Len(listing.data) =
         IF rowsLeft < listing.limit THEN rowsLeft ELSE listing.limit
    /\ \A i \in 1..Len(listing.data) : listing.data[i] = listing.skip + i
    /\ listing.total = T
    /\ listing.totalPages * listing.limit >= T
    /\ (listing.totalPages - 1) * listing.limit < T
    /\ listing.hasPrevPage <=> listing.page > 1
    /\ listing.hasNextPage <=> listing.page * listing.limit < T
    /\ listing.hasNextPage <=> listing.page < listing.totalPages

\* the last page of the aligner-case listing, partly filled
C28_Witness ==
  /\ listing.op = "getAllAlignerCases"
  /\ listing.page > 1
  /\ listing.page = listing.totalPages
  /\ Len(listing.data) > 0
  /\ Len(listing.data) < listing.limit
  /\ ~listing.hasNextPage

(* ================= properties: upload in the background ================ *)

\* what a step of the upload flow may do.  The create call answers ok with
\* the row created, no uploaded file on it yet, and the background call
\* started iff a file is attached; a background step changes neither the
\* answer nor a course row and never goes back to uploading; and a file
\* field changes only in the create call or in the patch of a background
\* call whose upload of that file gave the URL written
UploadFlow ==
  /\ \A c \in CourseIds :
       (now' = now + 1 /\ last'.op = "createCourse" /\ last'.id = c)
       => /\ last'.result = "ok"
          /\ ~courses[c].exists /\ courses'[c].exists
          /\ \A f \in DOMAIN NoMedia : media'[c][f] # "cdn/" \o f
          /\ \A k \in CallIds :
               uploads'[k] # uploads[k]
               => /\ uploads'[k].pc = "uploading"
                  /\ uploads'[k].id = c
                  /\ uploads'[k].files # NoUpload.files
  /\ \A k \in CallIds :
       (uploads'[k] # uploads[k] /\ now' = now)
       => /\ last' = last
          /\ courses' = courses
          /\ uploads[k].pc \in {"uploading", "patch"}
          /\ uploads'[k].pc \in {"patch", "done"} \ {uploads[k].pc}
          /\ uploads'[k].id = uploads[k].id
  /\ \A c \in CourseIds, f \in DOMAIN NoMedia :
       media'[c][f] # media[c][f]
       => \/ (now' = now + 1 /\ last'.op = "createCourse" /\ last'.id = c)
          \/ \E k \in CallIds :
               /\ uploads[k].pc = "patch" /\ uploads'[k].pc = "done"
               /\ uploads[k].id = c
               /\ courses[c].exists
               /\ uploads[k].files[f] = "valid"
               /\ uploads[k].uploadedFiles[f] = "cdn/" \o f
               /\ media'[c][f] = "cdn/" \o f

\* on a course created with attached files, every file field that is set
\* holds the URL of an upload that succeeded
OnlyUploaded ==
  \A c \in CourseIds, f \in DOMAIN NoMedia :
    ( /\ courses[c].exists
      /\ \E k \in CallIds : uploads[k].id = c
      /\ media[c][f] # "" )
    => media[c][f] = "cdn/" \o f

\* C29: on course creation with attached files the row is created first
\* and the patch of thumbnailImage/videoFile happens only after the create
\* response; whether the upload succeeds, fails, or the course is deleted
\* before the patch, the response is the same, nothing is retried, no error
\* reaches the caller, and a file field is set on the course only if that
\* file's upload succeeded.
C29_UploadAfterResponse ==
  []OnlyUploaded /\ [][UploadFlow]_vars

\* C29, amended: as above, except that the last part holds of the patch
\* only: the background patch writes a file field only if that file's
\* upload succeeded, and a field that it does not write keeps the value
\* the create DTO gave it, if any.
C29_BackgroundPatch ==
  [][UploadFlow]_vars

\* a course was created with a thumbnail URL in the DTO and two attached
\* files; the thumbnail upload failed, the video upload succeeded, and the
\* patch has written the video only
C29_Witness ==
  \E k \in CallIds :
    /\ uploads[k].pc = "done"
    /\ uploads[k].files = [thumbnailImage |-> "valid", videoFile |-> "valid"]
    /\ uploads[k].uploadedFiles.thumbnailImage = ""
    /\ courses[uploads[k].id].exists
    /\ media[uploads[k].id] = [thumbnailImage |-> "https://elsewhere",
                               videoFile |-> "cdn/videoFile"]
    /\ last.op = "createCourse"

(* ======================= properties: password reset ==================== *)

\* C30: a reset token is good for one reset: once resetPassword has
\* succeeded with a token that forgotPassword issued, every later
\* resetPassword call with that token fails with BadRequest and leaves every
\* user's password as it is.
C30_TokenSingleUse ==
  [][\A t \in accounts.spent :
       (now' = now + 1 /\ last'.op = "resetPassword" /\ last'.text = t)
       => /\ last'.result = "BadRequest"
          /\ accounts'.users = accounts.users
  ]_vars

\* a token was presented a second time, before the time it would have
\* expired at, and was refused; the password is the one of its first use
C30_Witness ==
  /\ last.op = "resetPassword"
  /\ last.result = "BadRequest"
  /\ last.text \in accounts.spent
  /\ now <= ResetTokenTTL + 1
  /\ \E u \in Users : accounts.users[u].password # NoAccounts.users[u].password

====
